---- MODULE Spec2Model ----
(***************************************************************************)
(* AWS VPC / property-file to InfoBlox synchronisation scripts.            *)
(*                                                                         *)
(* The module models, from the Python sources,                             *)
(*   - the CIDR overlap analysis of prop_infoblox_import_enhanced_complete,*)
(*   - the tag-to-attribute mapper and the attribute comparison,           *)
(*   - the creation priority,                                              *)
(*   - the reconcile loop (compare_*_with_infoblox),                       *)
(*   - the creation of missing networks, dry-run and live.                 *)
(* The script variants are told apart by the variable `variant`:           *)
(*   "v1"      aws_infoblox_vpc_manager_complete_v1.py                     *)
(*   "working" aws_infoblox_vpc_manager_working.py                         *)
(*   "v2"      aws_infoblox_vpc_manager_complete_v2.py                     *)
(*   "prop"    prop_infoblox_import.py                                     *)
(*   "enh"     prop_infoblox_import_enhanced_complete.py                   *)
(***************************************************************************)
EXTENDS Integers, Sequences, FiniteSets, TLC

VARIABLES
    pc,                \* position of the modelled run
    variant,           \* which script runs
    dry_run,           \* args.dry_run
    missing_networks,  \* the list handed to the overlap analysis / creation step
    overlap_analysis,  \* result of analyze_network_overlaps
    aws_tags,          \* a raw tag dict handed to the mapper
    mapped_eas,        \* the mapper's output for aws_tags
    remapped_eas,      \* the mapper's output for mapped_eas
    sorted_missing,    \* main's sorted_missing list
    priorities,        \* the priority main computed for each entry of sorted_missing
    vpc_df,            \* the input records handed to the comparison
    idx,               \* position of the running loop in its list
    results,           \* the comparison's five buckets
    error_msg,         \* str(e) of the exception the running iteration caught
    ib_networks,       \* the store's networks: CIDR -> extattrs
    ib_containers,     \* the store's network containers: CIDR -> extattrs
    now,               \* the wall clock, in seconds
    ea_defs,           \* the store's attribute definitions (their names)
    ea_cache,          \* the client's _ea_cache: <<>> or <<definitions>>
    ea_analysis,       \* what ensure_required_eas returned
    discrepancies,     \* the discrepancies bucket handed to fix_ea_discrepancies
    visited_containers,\* containers the container loop has been through
    operation_results, \* the result lists of the creation step
    fix_results,       \* what fix_ea_discrepancies returned
    emitted,           \* every outcome of the creation step, in the order appended
    requests,          \* every request sent to the store in this run, with its answer
    run,               \* 1: the first run of main; 2: the creation step called
                       \* again, live, after a dry call; 3: main run again by a
                       \* new process
    dry_emitted        \* the outcomes of the earlier call or run, kept for the
                       \* later one

ctlVars == <<pc, variant, dry_run>>
overlapVars == <<missing_networks, overlap_analysis>>
mapperVars == <<aws_tags, mapped_eas, remapped_eas>>
sortVars == <<sorted_missing, priorities>>
compareVars == <<vpc_df, idx, results, error_msg>>
storeVars == <<ib_networks, ib_containers>>

eaVars == <<ea_defs, ea_cache, ea_analysis>>
createVars == <<discrepancies, visited_containers, operation_results, fix_results,
                emitted, requests, run, dry_emitted>>

vars == <<ctlVars, overlapVars, mapperVars, sortVars, compareVars, storeVars, now,
          eaVars, createVars>>

\* what the steps of each specification leave alone
overlapFrame == <<mapperVars, sortVars, compareVars, storeVars, now, eaVars, createVars>>
mapperFrame == <<overlapVars, sortVars, compareVars, storeVars, now, eaVars, createVars>>
sortFrame == <<overlapVars, mapperVars, compareVars, storeVars, now, eaVars, createVars>>
compareFrame == <<overlapVars, mapperVars, sortVars, eaVars, createVars>>
runFrame == <<mapperVars, results, error_msg, now>>

(***************************************************************************)
(* Bounds of the model.                                                    *)
(***************************************************************************)
MaxNetworks == 3
MaxTags == 2
MaxMissing == 2
MaxRows == 2
MaxClock == 1

(***************************************************************************)
(* Generic sequence helpers.                                               *)
(***************************************************************************)
SeqsUpTo(S, n) == UNION {[1..k -> S] : k \in 0..n}

Range(s) == {s[i] : i \in DOMAIN s}

(***************************************************************************)
(* CIDR strings.  A CIDR string "a.b.c.d/p" is the record [ip, prefix];    *)
(* two strings are the same string exactly when the records are equal, so  *)
(* "10.0.1.7/24" and "10.0.1.0/24" are different CIDR strings although     *)
(* ipaddress.ip_network(..., strict=False) reads them as the same network. *)
(* A string with no "/p" part has the prefix NoPrefixPart, a string whose   *)
(* address part is not an IPv4 address has the ip NoAddress.                *)
(***************************************************************************)
NoPrefixPart == -1
NoAddress == -1

IPv4(a, b, c, d) == ((a * 256 + b) * 256 + c) * 256 + d

Cidr(a, b, c, d, p) == [ip |-> IPv4(a, b, c, d), prefix |-> p]

RECURSIVE Pow2(_)
Pow2(n) == IF n = 0 THEN 1 ELSE 2 * Pow2(n - 1)

\* ipaddress.ip_network raises ValueError
ip_network_raises(cidr) ==
    cidr.ip = NoAddress \/ (cidr.prefix # NoPrefixPart /\ cidr.prefix \notin 0..32)

\* a string with no "/p" part is read as a /32
prefixlen(cidr) == IF cidr.prefix = NoPrefixPart THEN 32 ELSE cidr.prefix

HostSize(cidr) == Pow2(32 - prefixlen(cidr))

\* an ip_network that keeps the host bits of the address
network_address_unmasked(cidr) == cidr.ip

\* ipaddress.ip_network(cidr, strict=False): host bits are masked away
network_address(cidr) == (cidr.ip \div HostSize(cidr)) * HostSize(cidr)

broadcast_address(cidr) == network_address(cidr) + HostSize(cidr) - 1

\* a.subnet_of(b): b.network_address <= a.network_address and
\*                 b.broadcast_address >= a.broadcast_address
subnet_of(a, b) ==
    /\ network_address(b) <= network_address(a)
    /\ broadcast_address(b) >= broadcast_address(a)

supernet_of(a, b) == subnet_of(b, a)

address_in(addr, net) ==
    /\ network_address(net) <= addr
    /\ addr <= broadcast_address(net)

overlaps(a, b) ==
    \/ address_in(network_address(a), b)
    \/ address_in(broadcast_address(a), b)
    \/ address_in(network_address(b), a)
    \/ address_in(broadcast_address(b), a)

check_network_overlap(cidr1, cidr2) ==
    IF ip_network_raises(cidr1) \/ ip_network_raises(cidr2) THEN "error"
    ELSE IF supernet_of(cidr1, cidr2) THEN "contains"
    ELSE IF subnet_of(cidr1, cidr2) THEN "contained"
    ELSE IF overlaps(cidr1, cidr2) THEN "overlap"
    ELSE "none"

(***************************************************************************)
(* analyze_network_overlaps                                                *)
(***************************************************************************)
\* int(x['cidr'].split('/')[1])
PrefixKey(net) == net.cidr.prefix

\* split('/')[1] raises IndexError for a string with no "/p" part, and the
\* sort raises with it
sort_key_raises(networks) ==
    \E i \in DOMAIN networks : networks[i].cidr.prefix = NoPrefixPart

\* sorted(networks, key=...) is stable: equal keys keep their input order
RECURSIVE sorted_by_prefix(_)
sorted_by_prefix(s) ==
    IF s = <<>> THEN <<>>
    ELSE LET rest == sorted_by_prefix(SubSeq(s, 1, Len(s) - 1))
             x    == s[Len(s)]
             k    == Cardinality({i \in DOMAIN rest : PrefixKey(rest[i]) <= PrefixKey(x)})
         IN  SubSeq(rest, 1, k) \o <<x>> \o SubSeq(rest, k + 1, Len(rest))

EmptyAnalysis == [containers |-> {}, relationships |-> <<>>, overlaps |-> <<>>]

\* result['relationships'][cidr1].append(net2), creating the list when absent
AddRelationship(rel, cidr1, net2) ==
    IF cidr1 \in DOMAIN rel
    THEN [rel EXCEPT ![cidr1] = Append(@, net2)]
    ELSE rel @@ (cidr1 :> <<net2>>)

\* the inner loop's body if a container listed its immediate children only:
\* net2 is left out when a record already in the list of net1 contains it
analyze_pair_immediate_children(result, net1, net2) ==
    LET overlap_type == check_network_overlap(net1.cidr, net2.cidr)
        listed == IF net1.cidr \in DOMAIN result.relationships
                  THEN result.relationships[net1.cidr]
                  ELSE <<>>
        nested == \E k \in DOMAIN listed :
                     /\ listed[k].cidr # net2.cidr
                     /\ check_network_overlap(listed[k].cidr, net2.cidr) = "contains"
    IN
    IF overlap_type = "contains"
    THEN [result EXCEPT
            !.containers = @ \cup {net1.cidr},
            !.relationships = IF nested THEN @ ELSE AddRelationship(@, net1.cidr, net2)]
    ELSE IF overlap_type = "overlap"
    THEN [result EXCEPT
            !.overlaps = Append(@, [network1 |-> net1, network2 |-> net2])]
    ELSE result

\* the body of the inner loop for the pair (net1, net2)
analyze_pair(result, net1, net2) ==
    LET overlap_type == check_network_overlap(net1.cidr, net2.cidr) IN
    IF overlap_type = "contains"
    THEN [result EXCEPT
            !.containers = @ \cup {net1.cidr},
            !.relationships = AddRelationship(@, net1.cidr, net2)]
    ELSE IF overlap_type = "overlap"
    THEN [result EXCEPT
            !.overlaps = Append(@, [network1 |-> net1, network2 |-> net2])]
    ELSE result

RECURSIVE analyze_loop(_, _, _, _)
analyze_loop(sorted_networks, i, j, result) ==
    IF i > Len(sorted_networks) THEN result
    ELSE IF j > Len(sorted_networks)
         THEN analyze_loop(sorted_networks, i + 1, i + 2, result)
         ELSE analyze_loop(sorted_networks, i, j + 1,
                           analyze_pair(result, sorted_networks[i], sorted_networks[j]))

analyze_network_overlaps(networks) ==
    analyze_loop(sorted_by_prefix(networks), 1, 2, EmptyAnalysis)

(***************************************************************************)
(* Python strings.  TLC treats a string as a sequence of one-character     *)
(* strings, so lower(), replace() and the `in` test are computed           *)
(* character by character.                                                 *)
(***************************************************************************)
UpperCase == "ABCDEFGHIJKLMNOPQRSTUVWXYZ"
LowerCase == "abcdefghijklmnopqrstuvwxyz"

\* upper-case letter -> lower-case letter
LowerTable ==
    [c \in {SubSeq(UpperCase, i, i) : i \in 1..Len(UpperCase)} |->
        LET i == CHOOSE k \in 1..Len(UpperCase) : SubSeq(UpperCase, k, k) = c
        IN  SubSeq(LowerCase, i, i)]

LowerChar(c) == IF c \in DOMAIN LowerTable THEN LowerTable[c] ELSE c

\* str.lower()
RECURSIVE str_lower(_)
str_lower(s) ==
    IF Len(s) = 0 THEN ""
    ELSE LowerChar(SubSeq(s, 1, 1)) \o str_lower(SubSeq(s, 2, Len(s)))

\* str.replace(old, new) for a one-character old
RECURSIVE str_replace(_, _, _)
str_replace(s, old, new) ==
    IF Len(s) = 0 THEN ""
    ELSE (IF SubSeq(s, 1, 1) = old THEN new ELSE SubSeq(s, 1, 1))
         \o str_replace(SubSeq(s, 2, Len(s)), old, new)

\* sub in s
str_contains(s, sub) ==
    \E i \in 1..(Len(s) - Len(sub) + 1) : SubSeq(s, i, i + Len(sub) - 1) = sub

(***************************************************************************)
(* Python dicts: a sequence of <<key, value>> pairs with distinct keys, in *)
(* insertion order.  Equality of dicts ignores the order.                  *)
(***************************************************************************)
DictKeys(d) == {d[i][1] : i \in DOMAIN d}

DictHas(d, k) == k \in DictKeys(d)

\* d.get(k, default)
DictGet(d, k, default) ==
    IF DictHas(d, k)
    THEN d[CHOOSE i \in DOMAIN d : d[i][1] = k][2]
    ELSE default

\* d[k] = v
DictSet(d, k, v) ==
    IF DictHas(d, k)
    THEN [i \in DOMAIN d |-> IF d[i][1] = k THEN <<k, v>> ELSE d[i]]
    ELSE Append(d, <<k, v>>)

\* d1 == d2
DictEq(d1, d2) == Range(d1) = Range(d2)

IsDict(d) == \A i, j \in DOMAIN d : d[i][1] = d[j][1] => i = j

(***************************************************************************)
(* map_aws_tags_to_infoblox_eas                                            *)
(***************************************************************************)
tag_mapping_v2 ==
    << <<"Name", "aws_name">>,
       <<"environment", "environment">>,
       <<"Environment", "environment">>,
       <<"owner", "owner">>,
       <<"Owner", "owner">>,
       <<"project", "project">>,
       <<"Project", "project">>,
       <<"location", "aws_location">>,
       <<"Location", "aws_location">>,
       <<"cloudservice", "aws_cloudservice">>,
       <<"createdby", "aws_created_by">>,
       <<"RequestedBy", "aws_requested_by">>,
       <<"Requested_By", "aws_requested_by">>,
       <<"dud", "aws_dud">>,
       <<"AccountId", "aws_account_id">>,
       <<"Region", "aws_region">>,
       <<"VpcId", "aws_vpc_id">>,
       <<"Description", "description">> >>

tag_mapping_working ==
    tag_mapping_v2 \o
    << <<"tfc_created", "aws_tfc_created">>,
       <<"tfe_created", "aws_tfe_created">> >>

tag_mapping(v) == IF v = "working" THEN tag_mapping_working ELSE tag_mapping_v2

MaxEAValueLen == 255

\* ea_key = tag_mapping.get(aws_key, f"aws_{aws_key.lower()}")
\* ea_key = ea_key.replace('-', '_').replace(' ', '_').lower()
ea_key_for(v, aws_key) ==
    LET mapped == DictGet(tag_mapping(v), aws_key, "aws_" \o str_lower(aws_key))
    IN  str_lower(str_replace(str_replace(mapped, "-", "_"), " ", "_"))

\* str(aws_value)[:255] if len(str(aws_value)) > 255 else str(aws_value)
ea_value_for(aws_value) ==
    IF Len(aws_value) > MaxEAValueLen
    THEN SubSeq(aws_value, 1, MaxEAValueLen)
    ELSE aws_value

RECURSIVE map_tags_loop(_, _, _, _)
map_tags_loop(v, tags, i, mapped) ==
    IF i > Len(tags) THEN mapped
    ELSE map_tags_loop(v, tags, i + 1,
                       DictSet(mapped, ea_key_for(v, tags[i][1]), ea_value_for(tags[i][2])))

map_aws_tags_to_infoblox_eas(v, tags) == map_tags_loop(v, tags, 1, <<>>)

(***************************************************************************)
(* _calculate_network_priority                                             *)
(***************************************************************************)
Max(a, b) == IF a >= b THEN a ELSE b

\* v1 and working: prefix length (99 when CidrBlock has no "/p" part: the
\* except branch) minus an environment bonus, at least 1
_calculate_network_priority_v1(vpc, tags) ==
    LET cidr_prefix == IF vpc.cidr.prefix = NoPrefixPart THEN 99 ELSE vpc.cidr.prefix
        env == str_lower(DictGet(tags, "environment", DictGet(tags, "Environment", "")))
        priority ==
            IF env \in {"prod", "production"} THEN cidr_prefix - 5
            ELSE IF env \in {"staging", "stage"} THEN cidr_prefix - 3
            ELSE IF env \in {"test", "testing"} THEN cidr_prefix - 2
            ELSE IF env \in {"dev", "development"} THEN cidr_prefix - 1
            ELSE cidr_prefix
    IN  Max(1, priority)

\* v2 and prop: the prefix length alone, 32 when the text after the last
\* "/" is not a number (the except branch)
_calculate_network_priority_v2(vpc, tags) ==
    IF vpc.cidr.prefix = NoPrefixPart THEN 32 ELSE vpc.cidr.prefix

_calculate_network_priority(v, item) ==
    IF v \in {"v1", "working"}
    THEN _calculate_network_priority_v1(item, item.aws_tags)
    ELSE _calculate_network_priority_v2(item, item.aws_tags)

\* missing_with_priority.sort(key=lambda x: x[0]) is stable
RECURSIVE sort_by_priority(_, _)
sort_by_priority(v, s) ==
    IF s = <<>> THEN <<>>
    ELSE LET rest == sort_by_priority(v, SubSeq(s, 1, Len(s) - 1))
             x    == s[Len(s)]
             k    == Cardinality({i \in DOMAIN rest :
                        _calculate_network_priority(v, rest[i])
                            <= _calculate_network_priority(v, x)})
         IN  SubSeq(rest, 1, k) \o <<x>> \o SubSeq(rest, k + 1, Len(rest))

(***************************************************************************)
(* The store's answers.  A request either succeeds ("ok") or fails with an *)
(* HTTP status or a transport error; str(e) of the exception is what the   *)
(* callers inspect.                                                        *)
(***************************************************************************)
Responses == {"ok", "400", "404", "500", "proxy", "timeout"}

ErrorMessage(resp) ==
    CASE resp = "400"     -> "400 Client Error: Bad Request for url"
      [] resp = "404"     -> "404 Client Error: Not Found for url"
      [] resp = "500"     -> "500 Server Error: Internal Server Error for url"
      [] resp = "proxy"   -> "Cannot connect to proxy: Tunnel connection failed: 404 Not Found"
      [] resp = "timeout" -> "Read timed out"
      [] OTHER            -> ""

IsHTTPError(resp) == resp \in {"400", "404", "500"}

\* the statuses get_network_by_cidr / get_network_container_by_cidr turn
\* into "no such object": 400 in v1 and working, 400 and 404 elsewhere
NotFoundStatuses(v) == IF v \in {"v1", "working"} THEN {"400"} ELSE {"400", "404"}

Returned(x) == [raised |-> FALSE, error |-> "", value |-> x]
Raised(msg) == [raised |-> TRUE, error |-> msg, value |-> <<>>]

\* get_network_by_cidr and get_network_container_by_cidr: the value is <<>>
\* for None and <<extattrs>> for the object found
get_by_cidr(v, table, cidr, resp) ==
    IF resp = "ok"
    THEN Returned(IF cidr \in DOMAIN table THEN <<table[cidr]>> ELSE <<>>)
    ELSE IF IsHTTPError(resp) /\ resp \in NotFoundStatuses(v)
    THEN Returned(<<>>)
    ELSE Raised(ErrorMessage(resp))

check_network_or_container_exists(v, networks, containers, cidr, net_resp, cont_resp) ==
    LET network == get_by_cidr(v, networks, cidr, net_resp)
        container == get_by_cidr(v, containers, cidr, cont_resp)
    IN  IF network.raised THEN network
        ELSE IF network.value # <<>>
        THEN Returned([exists |-> TRUE, type |-> "network", object |-> network.value[1]])
        ELSE IF container.raised THEN container
        ELSE IF container.value # <<>>
        THEN Returned([exists |-> TRUE, type |-> "container", object |-> container.value[1]])
        ELSE Returned([exists |-> FALSE, type |-> "None", object |-> <<>>])

\* the container lookup is made only when the network lookup returned None
ContainerResponses(v, networks, cidr, net_resp) ==
    IF get_by_cidr(v, networks, cidr, net_resp) = Returned(<<>>)
    THEN Responses
    ELSE {"unasked"}

(***************************************************************************)
(* map_properties_to_infoblox_eas and the comparison of attributes         *)
(***************************************************************************)
\* datetime.now().strftime('%Y-%m-%d %H:%M:%S') for a clock counted in
\* seconds from 2024-01-01 00:00:00
strftime(t) == "2024-01-01 00:00:0" \o ToString(t)

map_properties_to_infoblox_eas(site_id, m_host, t) ==
    << <<"site_id", site_id>>,
       <<"m_host", m_host>>,
       <<"source", "properties_file">>,
       <<"import_date", strftime(t)>> >>

\* v1 and working: only the mapped keys are looked at
_compare_eas_v1(mapped, ib_eas) ==
    \A i \in DOMAIN mapped :
        ~ (~ DictHas(ib_eas, mapped[i][1]) \/ DictGet(ib_eas, mapped[i][1], "") # mapped[i][2])

\* v2, prop and enh: the keys of both sides are looked at
_compare_eas_v2(mapped, ib_eas) ==
    LET all_keys == DictKeys(mapped) \cup DictKeys(ib_eas) IN
    \A key \in all_keys :
        /\ ~ (~ DictHas(mapped, key) \/ ~ DictHas(ib_eas, key))
        /\ ~ (DictGet(mapped, key, "") # DictGet(ib_eas, key, ""))

_compare_eas(v, mapped, ib_eas) ==
    IF v \in {"v1", "working"}
    THEN _compare_eas_v1(mapped, ib_eas)
    ELSE _compare_eas_v2(mapped, ib_eas)

(***************************************************************************)
(* compare_vpc_with_infoblox / compare_properties_with_infoblox            *)
(***************************************************************************)
EmptyResults ==
    [matches |-> <<>>, missing |-> <<>>, discrepancies |-> <<>>,
     containers |-> <<>>, errors |-> <<>>]

MappedEAs(v, rec, t) ==
    IF v = "enh"
    THEN map_properties_to_infoblox_eas(rec.site_id, rec.m_host, t)
    ELSE map_aws_tags_to_infoblox_eas(v, rec.aws_tags)

\* the entry appended to a bucket; row is the DataFrame index of the record
BucketEntry(row, rec, mapped, ib_eas, error) ==
    [row |-> row, vpc |-> rec, cidr |-> rec.cidr, aws_tags |-> rec.aws_tags,
     mapped_eas |-> mapped, ib_eas |-> ib_eas, error |-> error]

\* an except branch that files the record as missing and, for want of an
\* else, as an error too
compare_except_no_else(v, res, row, rec, str_e, t) ==
    LET filed ==
            IF str_contains(str_lower(str_e), "not found") \/ str_contains(str_e, "404")
            THEN [res EXCEPT !.missing =
                     Append(@, BucketEntry(row, rec, MappedEAs(v, rec, t), <<>>, ""))]
            ELSE res
    IN  [filed EXCEPT !.errors = Append(@, BucketEntry(row, rec, <<>>, <<>>, str_e))]

\* the except branch of the loop body; t is the clock when it maps again
compare_except(v, res, row, rec, str_e, t) ==
    IF v \in {"v1", "working"}
    THEN [res EXCEPT !.errors = Append(@, BucketEntry(row, rec, <<>>, <<>>, str_e))]
    ELSE IF str_contains(str_lower(str_e), "not found") \/ str_contains(str_e, "404")
    THEN [res EXCEPT !.missing = Append(@, BucketEntry(row, rec, MappedEAs(v, rec, t), <<>>, ""))]
    ELSE [res EXCEPT !.errors = Append(@, BucketEntry(row, rec, <<>>, <<>>, str_e))]

\* one iteration of the loop; the clock reads t1 in the try block and t2 in
\* the except block
compare_row(v, res, row, rec, networks, containers, net_resp, cont_resp, t1, t2) ==
    LET mapped == MappedEAs(v, rec, t1)
        existence_check ==
            check_network_or_container_exists(v, networks, containers, rec.cidr,
                                              net_resp, cont_resp)
    IN  IF existence_check.raised
        THEN compare_except(v, res, row, rec, existence_check.error, t2)
        ELSE IF ~ existence_check.value.exists
        THEN [res EXCEPT !.missing = Append(@, BucketEntry(row, rec, mapped, <<>>, ""))]
        ELSE IF existence_check.value.type = "container"
        THEN [res EXCEPT !.containers =
                 Append(@, BucketEntry(row, rec, mapped, existence_check.value.object, ""))]
        ELSE IF _compare_eas(v, mapped, existence_check.value.object)
        THEN [res EXCEPT !.matches =
                 Append(@, BucketEntry(row, rec, mapped, existence_check.value.object, ""))]
        ELSE [res EXCEPT !.discrepancies =
                 Append(@, BucketEntry(row, rec, mapped, existence_check.value.object, ""))]

(***************************************************************************)
(* The client's requests that the creation run makes.  Every request is    *)
(* logged with the store's answer.                                         *)
(***************************************************************************)
Request(method, object, key, resp) ==
    [method |-> method, object |-> object, key |-> key, resp |-> resp]

\* the answers to a POST or PUT besides "ok": "exists" is an HTTP 400 whose
\* text says the object already exists
MutationResponses == {"ok", "exists", "500"}

\* get_extensible_attributes: the definitions come from the cache when it
\* is filled, from the store otherwise
get_extensible_attributes(cache, defs, resp) ==
    IF cache # <<>>
    THEN [raised |-> FALSE, value |-> cache[1], cache |-> cache, log |-> <<>>]
    ELSE IF resp = "ok"
    THEN [raised |-> FALSE, value |-> defs, cache |-> <<defs>>,
          log |-> <<Request("GET", "extensibleattributedef", "", resp)>>]
    ELSE [raised |-> TRUE, value |-> {}, cache |-> cache,
          log |-> <<Request("GET", "extensibleattributedef", "", resp)>>]

\* a create_extensible_attribute that leaves the cache as it is
create_extensible_attribute_keeping_cache(name, defs, cache, resp) ==
    [raised |-> resp \notin {"ok", "exists"},
     defs   |-> IF resp \in {"ok", "exists"} THEN defs \cup {name} ELSE defs,
     cache  |-> cache,
     log    |-> <<Request("POST", "extensibleattributedef", name, resp)>>]

\* create_extensible_attribute: a success drops the cache; an HTTP 400
\* "already exists" is returned as a value; anything else is raised.  The
\* store answers "already exists" for a name it holds: another client has
\* defined it since the definitions were read.
create_extensible_attribute(name, defs, cache, resp) ==
    [raised |-> resp \notin {"ok", "exists"},
     defs   |-> IF resp \in {"ok", "exists"} THEN defs \cup {name} ELSE defs,
     cache  |-> IF resp = "ok" THEN <<>> ELSE cache,
     log    |-> <<Request("POST", "extensibleattributedef", name, resp)>>]

EmptyEAAnalysis == [missing_eas |-> <<>>, created_eas |-> <<>>, raised |-> FALSE]

\* the loop over the required names: ensure_required_eas_exist of the
\* client (v1, v2: an exception leaves the loop) and the loop of the
\* enhanced ensure_required_eas (each exception is caught and logged)
RECURSIVE ensure_loop(_, _, _, _, _)
ensure_loop(catches, names, existing_names, st, resps) ==
    IF names = <<>> \/ st.raised THEN st
    ELSE IF Head(names) \in existing_names
    THEN ensure_loop(catches, Tail(names), existing_names, st, Tail(resps))
    ELSE LET r == create_extensible_attribute(Head(names), st.defs, st.cache, Head(resps))
             next == [defs    |-> r.defs,
                      cache   |-> r.cache,
                      log     |-> st.log \o r.log,
                      raised  |-> r.raised /\ ~ catches,
                      created |-> IF r.raised THEN st.created
                                  ELSE Append(st.created, Head(names))]
         IN  ensure_loop(catches, Tail(names), existing_names, next, Tail(resps))

\* the printable ASCII characters in the order of their code points (the
\* grave accent, which a TLA+ string cannot hold, left out)
AsciiOrder ==
    " !\"#$%&'()*+,-./0123456789:;<=>?@ABCDEFGHIJKLMNOPQRSTUVWXYZ[\\]^_abcdefghijklmnopqrstuvwxyz{|}~"

\* character -> its place in AsciiOrder
CharCode ==
    [c \in {SubSeq(AsciiOrder, i, i) : i \in 1..Len(AsciiOrder)} |->
        CHOOSE k \in 1..Len(AsciiOrder) : SubSeq(AsciiOrder, k, k) = c]

\* a < b for two str: the first differing character decides, a proper
\* prefix is smaller
RECURSIVE str_less(_, _)
str_less(a, b) ==
    IF Len(b) = 0 THEN FALSE
    ELSE IF Len(a) = 0 THEN TRUE
    ELSE IF SubSeq(a, 1, 1) = SubSeq(b, 1, 1)
    THEN str_less(SubSeq(a, 2, Len(a)), SubSeq(b, 2, Len(b)))
    ELSE CharCode[SubSeq(a, 1, 1)] < CharCode[SubSeq(b, 1, 1)]

\* sorted(list(names))
RECURSIVE sorted_names(_)
sorted_names(S) ==
    IF S = {} THEN <<>>
    ELSE LET least == CHOOSE x \in S : \A y \in S \ {x} : str_less(x, y)
         IN  <<least>> \o sorted_names(S \ {least})

\* the orders in which list(a_set) may present the names
Orders(S) ==
    {o \in [1..Cardinality(S) -> S] : \A i, j \in DOMAIN o : o[i] = o[j] => i = j}

RECURSIVE all_mapped_keys(_, _)
all_mapped_keys(v, df) ==
    IF df = <<>> THEN {}
    ELSE DictKeys(map_aws_tags_to_infoblox_eas(v, Head(df).aws_tags))
         \cup all_mapped_keys(v, Tail(df))

\* the required names, in the orders the variant may walk them
RequiredEAOrders(v, df) ==
    IF v \in {"enh", "prop"} THEN {<<"site_id", "m_host", "source", "import_date">>}
    ELSE IF v \in {"v1", "working"} THEN {sorted_names(all_mapped_keys(v, df))}
    ELSE Orders(all_mapped_keys(v, df))

\* ensure_required_eas: in a dry run the definitions are read and the
\* missing names reported; otherwise the missing definitions are created
ensure_required_eas(v, required, dry, defs, cache, get_resp, resps) ==
    LET got == get_extensible_attributes(cache, defs, get_resp)
        missing == SelectSeq(required, LAMBDA n : n \notin got.value)
    IN  IF got.raised
        THEN [defs |-> defs, cache |-> got.cache, log |-> got.log, raised |-> TRUE,
              created |-> <<>>, missing |-> <<>>]
        ELSE IF dry
        THEN [defs |-> defs, cache |-> got.cache, log |-> got.log, raised |-> FALSE,
              created |-> <<>>, missing |-> missing]
        ELSE [missing |-> <<>>] @@
             ensure_loop(v = "enh", required, got.value,
                         [defs |-> defs, cache |-> got.cache, log |-> got.log,
                          raised |-> FALSE, created |-> <<>>],
                         resps)

(***************************************************************************)
(* create_network, create_network_container, update_network_extattrs       *)
(***************************************************************************)
\* what str(e) of a failed POST or PUT is when the exception is passed on
\* unchanged: the status line of an HTTP error
StatusLine(resp) ==
    IF resp = "exists" THEN ErrorMessage("400") ELSE ErrorMessage(resp)

\* what the text of the response is, which v2 and the enhanced script raise
\* in place of the status line
ResponseText(resp) ==
    CASE resp = "exists" -> "IB.Data.Conflict:The network already exists"
      [] resp = "500"    -> "Internal Error"
      [] OTHER           -> ErrorMessage(resp)

\* the ASCII characters str.strip() removes: space, \t, \n, \r, \f and the
\* control characters 0x0b, 0x1c, 0x1d, 0x1e, 0x1f, which stand in the
\* last five strings as themselves
Whitespace == {" ", "\t", "\n", "\r", "\f", "", "", "", "", ""}

\* str(v).strip() is empty
IsBlank(value) == \A i \in 1..Len(value) : SubSeq(value, i, i) \in Whitespace

\* cleaned_extattrs: the attributes whose value is not blank
cleaned_extattrs(extattrs) == SelectSeq(extattrs, LAMBDA kv : ~ IsBlank(kv[2]))

\* the POST of create_network (object "network") and of
\* _create_network_container (object "networkcontainer"); v1 sends the
\* attributes as they are and passes the exception on, the others clean
\* the attributes and raise the text of the response
create_object(v, object, table, cidr, extattrs, resp) ==
    LET sent == IF v \in {"v1", "working"} THEN extattrs ELSE cleaned_extattrs(extattrs)
    IN  [raised |-> resp # "ok",
         error  |-> IF resp = "ok" THEN ""
                    ELSE IF v \in {"v1", "working"} THEN StatusLine(resp)
                    ELSE ResponseText(resp),
         table  |-> IF resp = "ok"
                    THEN [c \in DOMAIN table \cup {cidr} |->
                             IF c = cidr THEN sent ELSE table[c]]
                    ELSE table,
         log    |-> <<Request("POST", object, cidr, resp)>>]

create_network(v, networks, cidr, extattrs, resp) ==
    create_object(v, "network", networks, cidr, extattrs, resp)

_create_network_container(v, containers, cidr, extattrs, resp) ==
    create_object(v, "networkcontainer", containers, cidr, extattrs, resp)

\* the PUT of update_network_extattrs on the network found at cidr
update_network_extattrs(networks, cidr, extattrs, resp) ==
    [raised |-> resp # "ok",
     error  |-> IF resp = "ok" THEN "" ELSE StatusLine(resp),
     table  |-> IF resp = "ok" /\ cidr \in DOMAIN networks
                THEN [networks EXCEPT ![cidr] = extattrs]
                ELSE networks,
     log    |-> <<Request("PUT", "network", cidr, resp)>>]

\* the PUT of update_network of the working script, which no code calls:
\* the attributes are sent, and replaced in the store, only when the dict
\* is not empty (the comment it may send is not part of the model's store)
update_network(networks, cidr, extattrs, resp) ==
    [raised |-> resp # "ok",
     error  |-> IF resp = "ok" THEN "" ELSE StatusLine(resp),
     table  |-> IF resp = "ok" /\ cidr \in DOMAIN networks /\ extattrs # <<>>
                THEN [networks EXCEPT ![cidr] = extattrs]
                ELSE networks,
     log    |-> <<Request("PUT", "network", cidr, resp)>>]

\* a check_network_or_container_exists that creates what it does not find
existence_log_creating(v, networks, cidr, net_resp, cont_resp) ==
    <<Request("GET", "network", cidr, net_resp)>> \o
    (IF get_by_cidr(v, networks, cidr, net_resp) = Returned(<<>>)
     THEN <<Request("GET", "networkcontainer", cidr, cont_resp),
            Request("POST", "network", cidr, "ok")>>
     ELSE <<>>)

\* the GETs check_network_or_container_exists sends
existence_log(v, networks, cidr, net_resp, cont_resp) ==
    <<Request("GET", "network", cidr, net_resp)>> \o
    (IF get_by_cidr(v, networks, cidr, net_resp) = Returned(<<>>)
     THEN <<Request("GET", "networkcontainer", cidr, cont_resp)>>
     ELSE <<>>)

(***************************************************************************)
(* The creation step.  An effect is what one iteration of a loop does: the *)
(* outcome it appends (to the list named), the store after it and the      *)
(* requests it sent.                                                       *)
(***************************************************************************)
EmptyOperationResults ==
    [results |-> <<>>, created_networks |-> <<>>, created_containers |-> <<>>,
     failed |-> <<>>, skipped_due_to_overlap |-> <<>>]

Outcome(list, item, action, error, detail) ==
    [list |-> list, row |-> item.row, cidr |-> item.cidr, action |-> action,
     error |-> error, detail |-> detail]

Effect(outcomes, networks, containers, log) ==
    [outcomes |-> outcomes, networks |-> networks, containers |-> containers, log |-> log]

\* v1, working: rejection_reason of a failed item
rejection_reason(error_str) ==
    LET lower == str_lower(error_str) IN
    IF str_contains(lower, "network container") \/ str_contains(lower, "parent")
    THEN "Conflicts with existing network container"
    ELSE IF str_contains(lower, "already exists") THEN "Network already exists"
    ELSE IF str_contains(lower, "extensible attribute") THEN "Extended Attribute error"
    ELSE IF str_contains(lower, "overlap") THEN "Network overlap conflict"
    ELSE "Unknown error"

\* v1, working: one iteration of create_missing_networks
create_item_v1(item, dry, networks, containers, net_resp, cont_resp, create_resp) ==
    IF dry
    THEN LET existence_check ==
                 check_network_or_container_exists("v1", networks, containers, item.cidr,
                                                   net_resp, cont_resp)
             log == existence_log("v1", networks, item.cidr, net_resp, cont_resp)
         IN  IF existence_check.raised
             THEN Effect(<<Outcome("results", item, "error", existence_check.error,
                                   rejection_reason(existence_check.error))>>,
                         networks, containers, log)
             ELSE IF existence_check.value.exists /\ existence_check.value.type = "container"
             THEN Effect(<<Outcome("results", item, "would_reject", "", "exists_as_container")>>,
                         networks, containers, log)
             ELSE Effect(<<Outcome("results", item, "would_create", "", "")>>,
                         networks, containers, log)
    ELSE LET response == create_network("v1", networks, item.cidr, item.mapped_eas, create_resp)
         IN  IF response.raised
             THEN Effect(<<Outcome("results", item, "error", response.error,
                                   rejection_reason(response.error))>>,
                         networks, containers, response.log)
             ELSE Effect(<<Outcome("results", item, "created", "", "")>>,
                         response.table, containers, response.log)

\* a categorisation that looks for "not found" before "invalid"
error_category_not_found_first(error_lower) ==
    IF str_contains(error_lower, "overlap") \/ str_contains(error_lower, "parent")
    THEN "overlap"
    ELSE IF str_contains(error_lower, "permission") \/ str_contains(error_lower, "auth")
    THEN "permission"
    ELSE IF str_contains(error_lower, "not found") THEN "not_found"
    ELSE IF str_contains(error_lower, "invalid") THEN "invalid"
    ELSE IF str_contains(error_lower, "network view") THEN "network_view_error"
    ELSE IF str_contains(error_lower, "extensible") \/ str_contains(error_lower, "attribute")
    THEN "ea_error"
    ELSE "unknown"

\* v2, prop: the category of a failed item
error_category(error_lower) ==
    IF str_contains(error_lower, "overlap") \/ str_contains(error_lower, "parent")
    THEN "overlap"
    ELSE IF str_contains(error_lower, "permission") \/ str_contains(error_lower, "auth")
    THEN "permission"
    ELSE IF str_contains(error_lower, "invalid") THEN "invalid"
    ELSE IF str_contains(error_lower, "network view") THEN "network_view_error"
    ELSE IF str_contains(error_lower, "not found") THEN "not_found"
    ELSE IF str_contains(error_lower, "extensible") \/ str_contains(error_lower, "attribute")
    THEN "ea_error"
    ELSE "unknown"

\* v2: the handling of "already exists": look the network up and update
\* its attributes
already_exists_v2(item, networks, containers, create_log, lookup_resp, update_resp) ==
    LET existing_network == get_by_cidr("v2", networks, item.cidr, lookup_resp)
        lookup_log == create_log \o <<Request("GET", "network", item.cidr, lookup_resp)>>
        update == update_network_extattrs(networks, item.cidr, item.mapped_eas, update_resp)
    IN  IF existing_network.raised
        THEN Effect(<<Outcome("results", item, "already_existed_ea_update_failed",
                              existing_network.error, "")>>,
                    networks, containers, lookup_log)
        ELSE IF existing_network.value = <<>>
        THEN Effect(<<Outcome("results", item, "already_existed", "", "")>>,
                    networks, containers, lookup_log)
        ELSE IF update.raised
        THEN Effect(<<Outcome("results", item, "already_existed_ea_update_failed",
                              update.error, "")>>,
                    networks, containers, lookup_log \o update.log)
        ELSE Effect(<<Outcome("results", item, "already_existed_updated_eas", "", "")>>,
                    update.table, containers, lookup_log \o update.log)

\* v2, prop: the except branch of an iteration; str_e is str(e)
create_except_v2(item, str_e, networks, containers, create_log, lookup_resp, update_resp) ==
    LET error_lower == str_lower(str_e)
    IN  IF str_contains(error_lower, "already exists")
           \/ str_contains(error_lower, "duplicate")
        THEN already_exists_v2(item, networks, containers, create_log,
                               lookup_resp, update_resp)
        ELSE Effect(<<Outcome("results", item, "error", str_e,
                              error_category(error_lower))>>,
                    networks, containers, create_log)

\* v2, prop: one iteration of create_missing_networks
create_item_v2(item, dry, networks, containers, create_resp, lookup_resp, update_resp) ==
    IF dry
    THEN Effect(<<Outcome("results", item, "would_create", "", "")>>,
                networks, containers, <<>>)
    ELSE LET result == create_network("v2", networks, item.cidr, item.mapped_eas, create_resp)
         IN  IF ~ result.raised
             THEN Effect(<<Outcome("results", item, "created", "", "")>>,
                         result.table, containers, result.log)
             ELSE create_except_v2(item, result.error, networks, containers, result.log,
                                   lookup_resp, update_resp)

\* v2, prop: one iteration of fix_ea_discrepancies
EmptyFixResults ==
    [updated_count |-> 0, would_update_count |-> 0, failed_count |-> 0, details |-> <<>>]

\* a fix_ea_discrepancies that updates without looking at dry_run
fix_item_always_updates(fix, item, dry, networks, update_resp) ==
    LET update == update_network_extattrs(networks, item.cidr, item.mapped_eas, update_resp)
    IN  IF update.raised
        THEN [fix |-> [fix EXCEPT !.failed_count = @ + 1,
                                  !.details = Append(@, Outcome("details", item, "error", update.error, ""))],
              networks |-> networks, log |-> update.log]
        ELSE [fix |-> [fix EXCEPT !.updated_count = @ + 1,
                                  !.details = Append(@, Outcome("details", item, "updated", "", ""))],
              networks |-> update.table, log |-> update.log]

\* a fix_ea_discrepancies that records a failed update without counting it
fix_item_uncounted_failure(fix, item, dry, networks, update_resp) ==
    LET update == update_network_extattrs(networks, item.cidr, item.mapped_eas, update_resp)
    IN  IF dry
        THEN [fix |-> [fix EXCEPT !.would_update_count = @ + 1,
                                  !.details = Append(@, Outcome("details", item, "would_update", "", ""))],
              networks |-> networks, log |-> <<>>]
        ELSE IF update.raised
        THEN [fix |-> [fix EXCEPT !.details = Append(@, Outcome("details", item, "error", update.error, ""))],
              networks |-> networks, log |-> update.log]
        ELSE [fix |-> [fix EXCEPT !.updated_count = @ + 1,
                                  !.details = Append(@, Outcome("details", item, "updated", "", ""))],
              networks |-> update.table, log |-> update.log]

fix_item(fix, item, dry, networks, update_resp) ==
    LET update == update_network_extattrs(networks, item.cidr, item.mapped_eas, update_resp)
    IN  IF dry
        THEN [fix |-> [fix EXCEPT !.would_update_count = @ + 1,
                                  !.details = Append(@, Outcome("details", item, "would_update", "", ""))],
              networks |-> networks, log |-> <<>>]
        ELSE IF update.raised
        THEN [fix |-> [fix EXCEPT !.failed_count = @ + 1,
                                  !.details = Append(@, Outcome("details", item, "error", update.error, ""))],
              networks |-> networks, log |-> update.log]
        ELSE [fix |-> [fix EXCEPT !.updated_count = @ + 1,
                                  !.details = Append(@, Outcome("details", item, "updated", "", ""))],
              networks |-> update.table, log |-> update.log]

\* enhanced: one iteration of the container loop; container_info is the
\* first record of the list with that CIDR
container_info(missing, container_cidr) ==
    LET found == SelectSeq(missing, LAMBDA n : n.cidr = container_cidr)
    IN  IF found = <<>> THEN <<>> ELSE <<Head(found)>>

create_container_step(missing, container_cidr, dry, networks, containers, create_resp) ==
    LET info == container_info(missing, container_cidr)
        response == _create_network_container("enh", containers, container_cidr,
                                              info[1].mapped_eas, create_resp)
    IN  IF info = <<>> THEN Effect(<<>>, networks, containers, <<>>)
        ELSE IF dry
        THEN Effect(<<Outcome("created_containers", info[1], "would_create_container", "", "")>>,
                    networks, containers, <<>>)
        ELSE IF response.raised
        THEN Effect(<<Outcome("failed", info[1], "failed", response.error, "container")>>,
                    networks, containers, response.log)
        ELSE Effect(<<Outcome("created_containers", info[1], "created_container", "", "")>>,
                    networks, response.table, response.log)

\* network == overlap['network1']: equality of the two dicts, which do not
\* hold the row
SameRecord(a, b) == [a EXCEPT !.row = 0] = [b EXCEPT !.row = 0]

has_problematic_overlap(network, analysis) ==
    \E k \in DOMAIN analysis.overlaps :
        \/ SameRecord(network, analysis.overlaps[k].network1)
        \/ SameRecord(network, analysis.overlaps[k].network2)

\* a network loop that does not skip the CIDRs created as containers
create_network_step_no_skip(network, analysis, dry, networks, containers, create_resp) ==
    LET response == create_network("enh", networks, network.cidr, network.mapped_eas,
                                   create_resp)
    IN  IF has_problematic_overlap(network, analysis)
        THEN Effect(<<Outcome("skipped_due_to_overlap", network, "skipped", "", "overlap")>>,
                    networks, containers, <<>>)
        ELSE IF dry
        THEN Effect(<<Outcome("created_networks", network, "would_create", "", "")>>,
                    networks, containers, <<>>)
        ELSE IF response.raised
        THEN Effect(<<Outcome("failed", network, "failed", response.error, "network")>>,
                    networks, containers, response.log)
        ELSE Effect(<<Outcome("created_networks", network, "created", "", "")>>,
                    response.table, containers, response.log)

\* enhanced: one iteration of the network loop
create_network_step(network, analysis, dry, networks, containers, create_resp) ==
    LET response == create_network("enh", networks, network.cidr, network.mapped_eas,
                                   create_resp)
    IN  IF network.cidr \in analysis.containers
        THEN Effect(<<>>, networks, containers, <<>>)
        ELSE IF has_problematic_overlap(network, analysis)
        THEN Effect(<<Outcome("skipped_due_to_overlap", network, "skipped", "", "overlap")>>,
                    networks, containers, <<>>)
        ELSE IF dry
        THEN Effect(<<Outcome("created_networks", network, "would_create", "", "")>>,
                    networks, containers, <<>>)
        ELSE IF response.raised
        THEN Effect(<<Outcome("failed", network, "failed", response.error, "network")>>,
                    networks, containers, response.log)
        ELSE Effect(<<Outcome("created_networks", network, "created", "", "")>>,
                    response.table, containers, response.log)

\* an outcome goes to the end of its list
append_outcomes(op_results, outcomes) ==
    IF outcomes = <<>> THEN op_results
    ELSE [op_results EXCEPT ![outcomes[1].list] = Append(@, outcomes[1])]

(***************************************************************************)
(* Inputs of the overlap analysis.                                         *)
(***************************************************************************)
NetA == Cidr(10, 0, 0, 0, 16)
NetB == Cidr(10, 0, 0, 0, 20)
NetC == Cidr(10, 0, 1, 0, 24)
NetD == Cidr(10, 1, 0, 0, 24)
NetE == Cidr(10, 0, 1, 7, 24)

OverlapCidrs == {NetA, NetB, NetC, NetD, NetE}

SiteIds == {"s1", "s2"}

PropRecord(cidr, site) ==
    [cidr |-> cidr, site_id |-> site, m_host |-> "h1", aws_tags |-> <<>>]

\* "10.0.0.0" and "10.0.0.999/24"
MalformedCidrs ==
    {[ip |-> IPv4(10, 0, 0, 0), prefix |-> NoPrefixPart], [ip |-> NoAddress, prefix |-> 24]}

OverlapInputs ==
    SeqsUpTo({PropRecord(c, s) : c \in OverlapCidrs, s \in SiteIds}
             \cup {PropRecord(c, "s1") : c \in MalformedCidrs}, MaxNetworks)

(***************************************************************************)
(* Specification of the overlap analysis: the input list is drawn in Init, *)
(* the one action applies analyze_network_overlaps to it.                  *)
(***************************************************************************)
IdleOverlap == missing_networks = <<>> /\ overlap_analysis = EmptyAnalysis
IdleMapper == aws_tags = <<>> /\ mapped_eas = <<>> /\ remapped_eas = <<>>
IdleSort == sorted_missing = <<>> /\ priorities = <<>>
IdleCompare == vpc_df = <<>> /\ idx = 1 /\ results = EmptyResults /\ error_msg = ""
IdleStore == ib_networks = <<>> /\ ib_containers = <<>>
IdleClock == now = 0
IdleEAs == ea_defs = {} /\ ea_cache = <<>> /\ ea_analysis = EmptyEAAnalysis
IdleCreate ==
    /\ discrepancies = <<>>
    /\ visited_containers = {}
    /\ operation_results = EmptyOperationResults
    /\ fix_results = EmptyFixResults
    /\ emitted = <<>>
    /\ requests = <<>>
    /\ run = 1
    /\ dry_emitted = <<>>

InitOverlap ==
    /\ pc = "start"
    /\ variant = "enh"
    /\ dry_run = FALSE
    /\ missing_networks \in OverlapInputs
    /\ overlap_analysis = EmptyAnalysis
    /\ IdleMapper /\ IdleSort /\ IdleCompare /\ IdleStore /\ IdleClock
    /\ IdleEAs /\ IdleCreate

Analyze ==
    /\ pc = "start"
    /\ variant = "enh"
    /\ IF sort_key_raises(missing_networks)
       THEN pc' = "aborted" /\ overlap_analysis' = overlap_analysis
       ELSE /\ overlap_analysis' = analyze_network_overlaps(missing_networks)
            /\ pc' = "analyzed"
    /\ UNCHANGED <<variant, dry_run, missing_networks, overlapFrame>>

NextOverlap == Analyze

SpecOverlap == InitOverlap /\ [][NextOverlap]_vars

(***************************************************************************)
(* Specification of the mapper: a raw tag dict is drawn in Init, MapTags   *)
(* applies the mapper to it and MapAgain applies the mapper to the result. *)
(***************************************************************************)
TagKeys ==
    {"Name", "Environment", "owner", "cost-center", "Team Name", "aws:stack", "k8s.io/app"}
TagValues == {"prod", "x"}

TagInputs ==
    {d \in SeqsUpTo(TagKeys \X TagValues, MaxTags) : IsDict(d)}

InitMapper ==
    /\ pc = "start"
    /\ variant \in {"v2", "working"}
    /\ dry_run = FALSE
    /\ aws_tags \in TagInputs
    /\ mapped_eas = <<>>
    /\ remapped_eas = <<>>
    /\ IdleOverlap /\ IdleSort /\ IdleCompare /\ IdleStore /\ IdleClock
    /\ IdleEAs /\ IdleCreate

MapTags ==
    /\ pc = "start"
    /\ mapped_eas' = map_aws_tags_to_infoblox_eas(variant, aws_tags)
    /\ pc' = "mapped"
    /\ UNCHANGED <<variant, dry_run, aws_tags, remapped_eas, mapperFrame>>

MapAgain ==
    /\ pc = "mapped"
    /\ remapped_eas' = map_aws_tags_to_infoblox_eas(variant, mapped_eas)
    /\ pc' = "remapped"
    /\ UNCHANGED <<variant, dry_run, aws_tags, mapped_eas, mapperFrame>>

NextMapper == MapTags \/ MapAgain

SpecMapper == InitMapper /\ [][NextMapper]_vars

(***************************************************************************)
(* Specification of main's priority sort (v1 lines 189-199, v2 lines       *)
(* 502-512, prop lines 511-521): the missing list is drawn in Init,        *)
(* SortMissing computes the priorities and sorts by them.                  *)
(***************************************************************************)
Net24 == Cidr(10, 0, 0, 0, 24)
Net4 == Cidr(16, 0, 0, 0, 4)
Net32 == Cidr(10, 0, 1, 7, 32)
Net0 == Cidr(0, 0, 0, 0, 0)

\* "10.0.0.0": a CidrBlock with no "/p" part
NoPrefixCidr == [ip |-> IPv4(10, 0, 0, 0), prefix |-> NoPrefixPart]

PriorityCidrs == {Net24, NetA, Net4, Net32, Net0, NoPrefixCidr}

PriorityTags ==
    { <<>>,
      << <<"environment", "prod">> >>,
      << <<"Environment", "Production">> >>,
      << <<"environment", "staging">> >>,
      << <<"Environment", "TEST">> >>,
      << <<"environment", "dev">> >>,
      << <<"environment", "qa">> >>,
      << <<"environment", "dev">>, <<"Environment", "prod">> >> }

VpcRecord(cidr, tags) ==
    [cidr |-> cidr, site_id |-> "", m_host |-> "", aws_tags |-> tags]

PriorityInputs(v) ==
    IF v = "prop"
    THEN SeqsUpTo({PropRecord(c, "s1") : c \in PriorityCidrs}, MaxMissing)
    ELSE SeqsUpTo({VpcRecord(c, t) : c \in PriorityCidrs, t \in PriorityTags}, MaxMissing)

InitPriority ==
    /\ pc = "start"
    /\ variant \in {"v1", "working", "v2", "prop"}
    /\ dry_run = FALSE
    /\ missing_networks \in PriorityInputs(variant)
    /\ overlap_analysis = EmptyAnalysis
    /\ sorted_missing = <<>>
    /\ priorities = <<>>
    /\ IdleMapper /\ IdleCompare /\ IdleStore /\ IdleClock
    /\ IdleEAs /\ IdleCreate

SortMissing ==
    /\ pc = "start"
    /\ variant # "enh"
    /\ sorted_missing' = sort_by_priority(variant, missing_networks)
    /\ priorities' = [i \in DOMAIN missing_networks |->
                        _calculate_network_priority(variant, sorted_missing'[i])]
    /\ pc' = "sorted"
    /\ UNCHANGED <<variant, dry_run, sortFrame>>

NextPriority == SortMissing

SpecPriority == InitPriority /\ [][NextPriority]_vars

(***************************************************************************)
(* Specification of the comparison: the records and the store are drawn    *)
(* in Init, CompareRow runs one iteration of the loop against the store's  *)
(* answers to its two lookups, CompareReturn returns the buckets.          *)
(***************************************************************************)
CompareCidrs == {NetA, NetC}

CompareTags ==
    { << <<"owner", "alice">> >>,
      << <<"owner", "alice">>, <<"Name", "x">> >> }

CompareRecords(v) ==
    IF v = "enh"
    THEN {PropRecord(c, "s1") : c \in CompareCidrs}
    ELSE {VpcRecord(c, t) : c \in CompareCidrs, t \in CompareTags}

StoredEAs(v) ==
    IF v = "enh"
    THEN { map_properties_to_infoblox_eas("s1", "h1", 0),
           map_properties_to_infoblox_eas("s1", "h1", 0) \o << <<"owner", "alice">> >>,
           map_properties_to_infoblox_eas("s2", "h1", 0) }
    ELSE { << <<"owner", "alice">> >>,
           << <<"aws_name", "x">>, <<"owner", "alice">> >>,
           << <<"owner", "bob">> >> }

\* NetA is absent or a network, NetC is absent or a container
StoredNetworks(v) == {<<>>} \cup {NetA :> eas : eas \in StoredEAs(v)}
StoredContainers(v) == {<<>>, NetC :> <<>>}

InitCompare ==
    /\ pc = "compare"
    /\ variant \in {"v1", "working", "v2", "enh"}
    /\ dry_run = FALSE
    /\ vpc_df \in SeqsUpTo(CompareRecords(variant), MaxRows)
    /\ idx = 1
    /\ results = EmptyResults
    /\ error_msg = ""
    /\ ib_networks \in StoredNetworks(variant)
    /\ ib_containers \in StoredContainers(variant)
    /\ now = 0
    /\ IdleOverlap /\ IdleMapper /\ IdleSort /\ IdleEAs /\ IdleCreate

ClockReads(v) ==
    IF v = "enh"
    THEN {<<t1, t2>> \in (now..MaxClock) \X (now..MaxClock) : t1 <= t2}
    ELSE {<<now, now>>}

CompareRow ==
    /\ pc = "compare"
    /\ idx <= Len(vpc_df)
    /\ \E net_resp \in Responses, t \in ClockReads(variant) :
       \E cont_resp \in ContainerResponses(variant, ib_networks, vpc_df[idx].cidr, net_resp) :
          /\ results' = compare_row(variant, results, idx, vpc_df[idx],
                                    ib_networks, ib_containers, net_resp, cont_resp,
                                    t[1], t[2])
          /\ now' = t[2]
          /\ error_msg' = check_network_or_container_exists(
                               variant, ib_networks, ib_containers, vpc_df[idx].cidr,
                               net_resp, cont_resp).error
    /\ idx' = idx + 1
    /\ UNCHANGED <<ctlVars, vpc_df, storeVars, compareFrame>>

CompareReturn ==
    /\ pc = "compare"
    /\ idx > Len(vpc_df)
    /\ pc' = "compared"
    /\ UNCHANGED <<variant, dry_run, compareVars, storeVars, now, compareFrame>>

NextCompare == CompareRow \/ CompareReturn

SpecCompare == InitCompare /\ [][NextCompare]_vars

(***************************************************************************)
(* The states and steps of a run with --create-missing (SpecRun, below):   *)
(* the attribute definitions are ensured, the missing networks are sorted  *)
(* (v1, v2) or analysed for overlaps (enhanced) and created, the           *)
(* discrepancies are repaired (v2).  After a dry run the creation step may *)
(* be called again without dry_run on the same list.                       *)
(***************************************************************************)
Net22 == Cidr(10, 0, 0, 0, 22)

RunRecords(v) ==
    IF v = "enh"
    THEN {PropRecord(NetA, "s1"), PropRecord(NetA, "s2"), PropRecord(NetB, "s1"),
          PropRecord(NetC, "s1")}
    ELSE {VpcRecord(Net22, << <<"environment", "dev">> >>),
          VpcRecord(NetC, << <<"Environment", "prod">>, <<"Name", "x">> >>)}

\* the missing bucket for the records s, which are rows 1..Len(s)
MissingEntries(v, s) ==
    [i \in DOMAIN s |-> BucketEntry(i, s[i], MappedEAs(v, s[i], 0), <<>>, "")]

\* v2: NetD is a network of the store whose attributes differ from its record's
DiscrepantRecord == VpcRecord(NetD, << <<"environment", "dev">> >>)
DiscrepantEAs == << <<"environment", "test">> >>
MaxDiscrepancies == 1

DiscrepancyEntries(v, first_row, n) ==
    [k \in 1..n |->
        BucketEntry(first_row + k - 1, DiscrepantRecord,
                    MappedEAs(v, DiscrepantRecord, 0), DiscrepantEAs, "")]

\* v2: NetC has become a network of the store since the comparison
RunNetworks(v) ==
    IF v = "v2"
    THEN {(NetD :> DiscrepantEAs) @@ (NetC :> << <<"environment", "prod">> >>)}
    ELSE {<<>>}

RunContainers(v) == IF v = "v1" THEN {<<>>, NetC :> <<>>} ELSE {<<>>}

RunEADefs(v) ==
    IF v = "enh"
    THEN {{"site_id", "m_host", "source", "import_date"}, {"site_id", "m_host", "source"}}
    ELSE {{"aws_name", "environment"}, {"environment"}}

\* v1 and v2 have compared when they reach ensure_required_eas: the run
\* starts there, with the buckets of the comparison.  The enhanced importer
\* ensures the attributes first and compares afterwards: its run starts in
\* main with the records of the file.
InitRun ==
    /\ variant \in {"v1", "v2", "enh"}
    /\ pc = IF variant = "enh" THEN "main" ELSE "ensure_eas"
    /\ dry_run \in BOOLEAN
    /\ \E s \in SeqsUpTo(RunRecords(variant),
                         IF variant = "enh" THEN MaxNetworks ELSE MaxMissing) :
       \E n \in 0..(IF variant = "v2" THEN MaxDiscrepancies ELSE 0) :
          /\ missing_networks = IF variant = "enh" THEN <<>>
                                ELSE MissingEntries(variant, s)
          /\ discrepancies = DiscrepancyEntries(variant, Len(s) + 1, n)
          /\ vpc_df = s \o [k \in 1..n |-> DiscrepantRecord]
    /\ overlap_analysis = EmptyAnalysis
    /\ idx = 1
    /\ results = EmptyResults
    /\ error_msg = ""
    /\ ib_networks \in RunNetworks(variant)
    /\ ib_containers \in RunContainers(variant)
    /\ ea_defs \in RunEADefs(variant)
    /\ ea_cache = <<>>
    /\ ea_analysis = EmptyEAAnalysis
    /\ visited_containers = {}
    /\ operation_results = EmptyOperationResults
    /\ fix_results = EmptyFixResults
    /\ emitted = <<>>
    /\ requests = <<>>
    /\ run = 1
    /\ dry_emitted = <<>>
    /\ IdleMapper /\ IdleSort /\ IdleClock

\* v1 and v2: main has compared and reaches ensure_required_eas; v1 ensures
\* the attributes only when there are missing networks
\* ensure_required_eas as main of v1 and v2 calls it, and where main goes
\* next with the missing bucket it holds
EnsureStep(missing) ==
    \E required \in RequiredEAOrders(variant, vpc_df), get_resp \in {"ok", "500"} :
       \E resps \in [1..Len(required) -> MutationResponses] :
          LET r == ensure_required_eas(variant, required, dry_run, ea_defs, ea_cache,
                                       get_resp, resps)
          IN  /\ ea_defs' = r.defs
              /\ ea_cache' = r.cache
              /\ ea_analysis' = [missing_eas |-> r.missing, created_eas |-> r.created,
                                 raised |-> r.raised]
              /\ requests' = requests \o r.log
              /\ pc' = IF r.raised THEN "aborted"
                       ELSE IF missing # <<>> THEN "start"
                       ELSE IF variant = "v2" THEN "fix"
                       ELSE "done"

EnsureRequiredEAs ==
    /\ pc = "ensure_eas"
    /\ variant # "enh"
    /\ ~ (variant = "v1" /\ missing_networks = <<>>)
    /\ EnsureStep(missing_networks)
    /\ UNCHANGED <<variant, dry_run, overlapVars, sortVars, compareVars, storeVars,
                   discrepancies, visited_containers, operation_results, fix_results,
                   emitted, run, dry_emitted, mapperVars, now>>

SkipCreation ==
    /\ pc = "ensure_eas"
    /\ variant = "v1" /\ missing_networks = <<>>
    /\ pc' = "done"
    /\ UNCHANGED <<variant, dry_run, overlapVars, sortVars, compareVars, storeVars,
                   eaVars, createVars, mapperVars, now>>

\* the answers the creation run meets
LookupResponses == {"ok", "404", "500"}
UpdateResponses == {"ok", "500"}
CreateResponses(v) == MutationResponses

\* the answers to the requests one item makes: the POST, the GET of the
\* network, the GET of the container, the PUT; a request that is not made
\* is "unasked"
ItemResponses(v, dry, networks, cidr) ==
    IF v = "v1"
    THEN IF dry
         THEN UNION {{<<"unasked", net_resp, cont_resp, "unasked">> :
                         cont_resp \in ContainerResponses(v, networks, cidr, net_resp)
                                       \cap (LookupResponses \cup {"unasked"})} :
                     net_resp \in LookupResponses}
         ELSE {<<create_resp, "unasked", "unasked", "unasked">> :
                  create_resp \in CreateResponses(v)}
    ELSE IF dry
         THEN {<<"unasked", "unasked", "unasked", "unasked">>}
         ELSE {<<create_resp, "unasked", "unasked", "unasked">> :
                  create_resp \in CreateResponses(v) \ {"exists"}}
              \cup {<<"exists", net_resp, "unasked", "unasked">> : net_resp \in
                        {n \in LookupResponses : get_by_cidr(v, networks, cidr, n).value = <<>>}}
              \cup {<<"exists", net_resp, "unasked", update_resp>> :
                        net_resp \in {n \in LookupResponses :
                                         get_by_cidr(v, networks, cidr, n).value # <<>>},
                        update_resp \in UpdateResponses}

\* what an iteration of a creation loop leaves behind
ApplyEffect(e) ==
    /\ operation_results' = append_outcomes(operation_results, e.outcomes)
    /\ emitted' = emitted \o e.outcomes
    /\ ib_networks' = e.networks
    /\ ib_containers' = e.containers
    /\ requests' = requests \o e.log

\* enhanced: the container loop walks the set in an order of its own
CreateContainer ==
    /\ pc = "analyzed"
    /\ \E container_cidr \in overlap_analysis.containers \ visited_containers :
          /\ \E create_resp \in CreateResponses(variant) :
                ApplyEffect(create_container_step(missing_networks, container_cidr, dry_run,
                                                  ib_networks, ib_containers, create_resp))
          /\ visited_containers' = visited_containers \cup {container_cidr}
    /\ UNCHANGED <<ctlVars, overlapVars, sortVars, compareVars, eaVars, discrepancies,
                   fix_results, run, dry_emitted, mapperVars, now>>

\* enhanced: the network loop, after the container loop
CreateNetwork ==
    /\ pc = "analyzed"
    /\ visited_containers = overlap_analysis.containers
    /\ idx <= Len(missing_networks)
    /\ \E create_resp \in CreateResponses(variant) :
          ApplyEffect(create_network_step(missing_networks[idx], overlap_analysis, dry_run,
                                          ib_networks, ib_containers, create_resp))
    /\ idx' = idx + 1
    /\ UNCHANGED <<ctlVars, overlapVars, sortVars, vpc_df, results, error_msg, eaVars, discrepancies,
                   visited_containers, fix_results, run, dry_emitted, mapperVars, now>>

\* v1, v2: one item of create_missing_networks
CreateItem ==
    /\ pc = "sorted"
    /\ idx <= Len(sorted_missing)
    /\ \E r \in ItemResponses(variant, dry_run, ib_networks, sorted_missing[idx].cidr) :
          ApplyEffect(IF variant = "v1"
                      THEN create_item_v1(sorted_missing[idx], dry_run, ib_networks,
                                          ib_containers, r[2], r[3], r[1])
                      ELSE create_item_v2(sorted_missing[idx], dry_run, ib_networks,
                                          ib_containers, r[1], r[2], r[4]))
    /\ idx' = idx + 1
    /\ UNCHANGED <<ctlVars, overlapVars, sortVars, vpc_df, results, error_msg, eaVars, discrepancies,
                   visited_containers, fix_results, run, dry_emitted, mapperVars, now>>

\* the creation step returns; main of v2 goes on to the discrepancies
\* after its call
CreateReturn ==
    /\ \/ pc = "sorted" /\ idx > Len(sorted_missing)
       \/ /\ pc = "analyzed"
          /\ visited_containers = overlap_analysis.containers
          /\ idx > Len(missing_networks)
    /\ pc' = IF variant = "v2" /\ run # 2 THEN "fix" ELSE "done"
    /\ idx' = 1
    /\ UNCHANGED <<variant, dry_run, overlapVars, sortVars, vpc_df, results, error_msg, storeVars,
                   eaVars, createVars, mapperVars, now>>

\* v2: one item of fix_ea_discrepancies
FixItem ==
    /\ pc = "fix"
    /\ idx <= Len(discrepancies)
    /\ \E update_resp \in UpdateResponses :
          LET r == fix_item(fix_results, discrepancies[idx], dry_run, ib_networks, update_resp)
          IN  /\ fix_results' = r.fix
              /\ ib_networks' = r.networks
              /\ requests' = requests \o r.log
    /\ idx' = idx + 1
    /\ UNCHANGED <<ctlVars, overlapVars, sortVars, vpc_df, results, error_msg, ib_containers, eaVars,
                   discrepancies, visited_containers, operation_results, emitted, run,
                   dry_emitted, mapperVars, now>>

FixReturn ==
    /\ pc = "fix"
    /\ idx > Len(discrepancies)
    /\ pc' = "done"
    /\ UNCHANGED <<variant, dry_run, overlapVars, sortVars, compareVars, storeVars,
                   eaVars, createVars, mapperVars, now>>

AllOk == \A k \in DOMAIN requests : requests[k].resp = "ok"

\* after a call with dry_run=True that met no failure, the creation step
\* is called again on the same list with dry_run=False: v1 and v2 are
\* handed the sorted list again, the enhanced importer analyses the list
\* again
Rerun ==
    /\ pc = "done"
    /\ dry_run
    /\ run = 1
    /\ AllOk
    /\ pc' = IF variant = "enh" THEN "start" ELSE "sorted"
    /\ dry_run' = FALSE
    /\ run' = 2
    /\ dry_emitted' = emitted
    /\ emitted' = <<>>
    /\ requests' = <<>>
    /\ operation_results' = EmptyOperationResults
    /\ visited_containers' = {}
    /\ overlap_analysis' = EmptyAnalysis
    /\ idx' = 1
    /\ UNCHANGED <<variant, missing_networks, sortVars, vpc_df, results, error_msg,
                   storeVars, eaVars, discrepancies, fix_results, mapperVars, now>>


(***************************************************************************)
(* Specification of the except branch of a creation (v2 lines 1119-1189,   *)
(* prop lines 1105-1179): the text of the exception is drawn in Init,      *)
(* CreateExcept handles it for the one record of the list.                 *)
(***************************************************************************)
MaxFragments == 2

ErrorFragments ==
    {"Overlap", "parent", "Permission", "AUTH", "Invalid", "Network View", "not found",
     "Extensible", "attribute", "already exists", "Duplicate", "timed out"}

RECURSIVE JoinFragments(_)
JoinFragments(fs) ==
    IF fs = <<>> THEN ""
    ELSE IF Len(fs) = 1 THEN fs[1]
    ELSE fs[1] \o ": " \o JoinFragments(Tail(fs))

ErrorTexts == {JoinFragments(fs) : fs \in SeqsUpTo(ErrorFragments, MaxFragments) \ {<<>>}}

InitCategory ==
    /\ pc = "create_failed"
    /\ variant = "v2"
    /\ dry_run = FALSE
    /\ missing_networks =
          MissingEntries("v2", <<VpcRecord(NetC, << <<"environment", "dev">> >>)>>)
    /\ overlap_analysis = EmptyAnalysis
    /\ error_msg \in ErrorTexts
    /\ vpc_df = <<>> /\ idx = 1 /\ results = EmptyResults
    /\ ib_networks \in {<<>>, NetC :> <<>>}
    /\ ib_containers = <<>>
    /\ IdleMapper /\ IdleSort /\ IdleClock /\ IdleEAs /\ IdleCreate

CreateExcept ==
    /\ pc = "create_failed"
    /\ \E lookup_resp \in LookupResponses, update_resp \in UpdateResponses :
          ApplyEffect(create_except_v2(missing_networks[1], error_msg, ib_networks,
                                       ib_containers, <<>>, lookup_resp, update_resp))
    /\ pc' = "handled"
    /\ UNCHANGED <<variant, dry_run, overlapVars, mapperVars, sortVars, compareVars, now,
                   eaVars, discrepancies, visited_containers, fix_results, run, dry_emitted>>

NextCategory == CreateExcept

SpecCategory == InitCategory /\ [][NextCategory]_vars

(***************************************************************************)
(* Specification of the comparison with its requests: as SpecCompare, and  *)
(* every request check_network_or_container_exists sends is logged with    *)
(* the store's answer.                                                     *)
(***************************************************************************)
MaxLookups == 1

InitReconcile ==
    /\ pc = "compare"
    /\ variant \in {"v1", "working", "v2", "enh"}
    /\ dry_run = FALSE
    /\ vpc_df \in SeqsUpTo(CompareRecords(variant), MaxLookups)
    /\ idx = 1
    /\ results = EmptyResults
    /\ error_msg = ""
    /\ ib_networks \in StoredNetworks(variant)
    /\ ib_containers \in StoredContainers(variant)
    /\ now = 0
    /\ IdleOverlap /\ IdleMapper /\ IdleSort /\ IdleEAs /\ IdleCreate

\* one row of compare_vpc_with_infoblox / compare_properties_with_infoblox,
\* its lookups answered from resps and its clock read from clocks
CompareStep(resps, clocks) ==
    /\ pc = "compare"
    /\ idx <= Len(vpc_df)
    /\ \E net_resp \in resps, t \in clocks :
       \E cont_resp \in ContainerResponses(variant, ib_networks, vpc_df[idx].cidr, net_resp)
                           \cap (resps \cup {"unasked"}) :
          /\ results' = compare_row(variant, results, idx, vpc_df[idx],
                                    ib_networks, ib_containers, net_resp, cont_resp,
                                    t[1], t[2])
          /\ now' = t[2]
          /\ error_msg' = check_network_or_container_exists(
                               variant, ib_networks, ib_containers, vpc_df[idx].cidr,
                               net_resp, cont_resp).error
          /\ requests' = requests \o existence_log(variant, ib_networks, vpc_df[idx].cidr,
                                                   net_resp, cont_resp)
    /\ idx' = idx + 1
    /\ UNCHANGED <<ctlVars, vpc_df, storeVars, overlapVars, mapperVars, sortVars, eaVars,
                   discrepancies, visited_containers, operation_results, fix_results,
                   emitted, run, dry_emitted>>

ReconcileRow == CompareStep(Responses, ClockReads(variant))

ReconcileReturn ==
    /\ pc = "compare"
    /\ idx > Len(vpc_df)
    /\ pc' = "compared"
    /\ UNCHANGED <<variant, dry_run, compareVars, storeVars, now, compareFrame>>

NextReconcile == ReconcileRow \/ ReconcileReturn

SpecReconcile == InitReconcile /\ [][NextReconcile]_vars

(***************************************************************************)
(* Specification of a run of main with neither --create-missing nor        *)
(* --dry-run: the enhanced importer ensures the attribute definitions      *)
(* (977-979), the others do not (v1 182-183, v2 463-466); then the         *)
(* comparison runs and main reports.                                       *)
(***************************************************************************)
InitCompareOnly ==
    /\ pc = "main"
    /\ variant \in {"v1", "v2", "enh"}
    /\ dry_run = FALSE
    /\ vpc_df \in SeqsUpTo(CompareRecords(variant), MaxLookups)
    /\ idx = 1
    /\ results = EmptyResults
    /\ error_msg = ""
    /\ ib_networks \in StoredNetworks(variant)
    /\ ib_containers \in StoredContainers(variant)
    /\ ea_defs \in RunEADefs(variant)
    /\ ea_cache = <<>>
    /\ ea_analysis = EmptyEAAnalysis
    /\ now = 0
    /\ IdleOverlap /\ IdleMapper /\ IdleSort /\ IdleCreate

\* enhanced: ensure_required_eas(expanded_df, dry_run=args.dry_run)
MainEnsure ==
    /\ pc = "main"
    /\ variant = "enh"
    /\ vpc_df # <<>>
    /\ \E required \in RequiredEAOrders(variant, vpc_df), get_resp \in {"ok", "500"} :
       \E resps \in [1..Len(required) -> MutationResponses] :
          LET r == ensure_required_eas(variant, required, dry_run, ea_defs, ea_cache,
                                       get_resp, resps)
          IN  /\ ea_defs' = r.defs
              /\ ea_cache' = r.cache
              /\ ea_analysis' = [missing_eas |-> r.missing, created_eas |-> r.created,
                                 raised |-> r.raised]
              /\ requests' = requests \o r.log
              /\ pc' = IF r.raised THEN "aborted" ELSE "compare"
    /\ UNCHANGED <<variant, dry_run, overlapVars, sortVars, compareVars, storeVars,
                   discrepancies, visited_containers, operation_results, fix_results,
                   emitted, run, dry_emitted, mapperVars, now>>

\* enhanced: main returns when the file holds no network (972-975)
MainEmpty ==
    /\ pc = "main"
    /\ variant = "enh"
    /\ vpc_df = <<>>
    /\ pc' = "done"
    /\ UNCHANGED <<variant, dry_run, overlapVars, sortVars, compareVars, storeVars,
                   eaVars, createVars, mapperVars, now>>

\* v1, v2: the attributes are only looked at under --create-missing
MainNoEnsure ==
    /\ pc = "main"
    /\ variant # "enh"
    /\ pc' = "compare"
    /\ UNCHANGED <<variant, dry_run, overlapVars, sortVars, compareVars, storeVars,
                   eaVars, createVars, mapperVars, now>>

NextCompareOnly ==
    MainEnsure \/ MainEmpty \/ MainNoEnsure \/ ReconcileRow \/ ReconcileReturn

SpecCompareOnly == InitCompareOnly /\ [][NextCompareOnly]_vars

(***************************************************************************)
(* The run of main under --create-missing.  v1 and v2 start after their    *)
(* comparison (InitRun).  The enhanced importer returns on an empty file   *)
(* (972-975), ensures the definitions (977-979), compares (988) and hands  *)
(* the missing bucket to create_missing_networks_with_overlap_check        *)
(* (1010-1017).  The lookups of that comparison are answered, and its      *)
(* clock stands still; failing lookups and a moving clock are the inputs   *)
(* of SpecCompare, SpecReconcile and SpecConverge.                         *)
(***************************************************************************)
RunLookups == {"ok"}

RunCompareRow == variant = "enh" /\ CompareStep(RunLookups, {<<now, now>>})

\* enhanced main: if args.create_missing and comparison_results['missing']
MainCreate ==
    /\ pc = "compared"
    /\ variant = "enh"
    /\ missing_networks' = results.missing
    /\ idx' = 1
    /\ pc' = IF results.missing # <<>> THEN "start" ELSE "done"
    /\ UNCHANGED <<variant, dry_run, overlap_analysis, sortVars, vpc_df, results,
                   error_msg, storeVars, eaVars, createVars, mapperVars, now>>

NextRun ==
    \/ EnsureRequiredEAs
    \/ SkipCreation
    \/ MainEmpty
    \/ MainEnsure
    \/ RunCompareRow
    \/ ReconcileReturn
    \/ MainCreate
    \/ SortMissing
    \/ Analyze
    \/ CreateContainer
    \/ CreateNetwork
    \/ CreateItem
    \/ CreateReturn
    \/ FixItem
    \/ FixReturn
    \/ Rerun

SpecRun == InitRun /\ [][NextRun]_vars

(***************************************************************************)
(* Specification of two runs of main under --create-missing, without       *)
(* --dry-run, against a store that is empty at first: the first run is the *)
(* run of SpecRun (v1 and v2 start after their comparison, the enhanced    *)
(* importer in main), the second run is a new process that compares the    *)
(* same records with what the store holds by then and goes on as the first *)
(* did: it ensures the definitions, creates what is still missing and      *)
(* repairs what differs (v2).  The lookups of the comparisons are          *)
(* answered; the clock may advance with every reading.                     *)
(***************************************************************************)
MaxBatch == 2

ConvergeRecords(v) ==
    IF v = "enh"
    THEN CompareRecords(v)
    ELSE {VpcRecord(NetA, << <<"owner", "alice">> >>),
          VpcRecord(NetC, << <<"owner", "alice">>, <<"project", "">> >>)}

InitConverge ==
    /\ variant \in {"v1", "v2", "enh"}
    /\ pc = IF variant = "enh" THEN "main" ELSE "ensure_eas"
    /\ dry_run = FALSE
    /\ vpc_df \in SeqsUpTo(ConvergeRecords(variant), MaxBatch) \ {<<>>}
    /\ missing_networks = IF variant = "enh" THEN <<>>
                          ELSE MissingEntries(variant, vpc_df)
    /\ overlap_analysis = EmptyAnalysis
    /\ idx = 1
    /\ results = EmptyResults
    /\ error_msg = ""
    /\ ea_defs \in (IF variant = "enh" THEN RunEADefs(variant)
                    ELSE {{"owner", "project"}, {"owner"}})
    /\ ea_cache = <<>>
    /\ ea_analysis = EmptyEAAnalysis
    /\ IdleStore /\ IdleMapper /\ IdleSort /\ IdleClock /\ IdleCreate

ConvergeCompareRow == CompareStep(RunLookups, ClockReads(variant))

\* v1 and v2, main after its comparison: the buckets of the comparison are
\* what main goes on with; under --create-missing ensure_required_eas
\* follows (v1 179-183 only when something is missing, v2 464-466)
EnsureAfterCompare ==
    /\ pc = "compared"
    /\ variant # "enh"
    /\ ~ (variant = "v1" /\ results.missing = <<>>)
    /\ missing_networks' = results.missing
    /\ discrepancies' = IF variant = "v2" THEN results.discrepancies ELSE <<>>
    /\ idx' = 1
    /\ EnsureStep(results.missing)
    /\ UNCHANGED <<variant, dry_run, overlap_analysis, sortVars, vpc_df, results,
                   error_msg, storeVars, visited_containers, operation_results,
                   fix_results, emitted, run, dry_emitted, mapperVars, now>>

\* v1: nothing is missing, main reports and returns
SkipAfterCompare ==
    /\ pc = "compared"
    /\ variant = "v1"
    /\ results.missing = <<>>
    /\ pc' = "done"
    /\ UNCHANGED <<variant, dry_run, overlapVars, sortVars, compareVars, storeVars,
                   eaVars, createVars, mapperVars, now>>

\* the script is run again by a new process: main starts with a client
\* whose cache is empty, with empty buckets and empty result lists; the
\* outcomes of the first run are kept in dry_emitted and its requests stay
\* in the log, for the properties to refer to
SecondRun ==
    /\ pc = "done"
    /\ run = 1
    /\ pc' = "main"
    /\ run' = 3
    /\ idx' = 1
    /\ results' = EmptyResults
    /\ error_msg' = ""
    /\ ea_cache' = <<>>
    /\ ea_analysis' = EmptyEAAnalysis
    /\ missing_networks' = <<>>
    /\ overlap_analysis' = EmptyAnalysis
    /\ sorted_missing' = <<>>
    /\ priorities' = <<>>
    /\ discrepancies' = <<>>
    /\ visited_containers' = {}
    /\ operation_results' = EmptyOperationResults
    /\ fix_results' = EmptyFixResults
    /\ dry_emitted' = emitted
    /\ emitted' = <<>>
    /\ UNCHANGED <<variant, dry_run, vpc_df, storeVars, ea_defs, requests,
                   mapperVars, now>>

NextConverge ==
    \/ EnsureRequiredEAs
    \/ MainEnsure
    \/ MainNoEnsure
    \/ ConvergeCompareRow
    \/ ReconcileReturn
    \/ MainCreate
    \/ EnsureAfterCompare
    \/ SkipAfterCompare
    \/ SortMissing
    \/ Analyze
    \/ CreateContainer
    \/ CreateNetwork
    \/ CreateItem
    \/ CreateReturn
    \/ FixItem
    \/ FixReturn
    \/ SecondRun

SpecConverge == InitConverge /\ [][NextConverge]_vars

(***************************************************************************)
(* Specification of fix_ea_discrepancies (v2 1272-1323, prop 1249-1304):   *)
(* the discrepancies are drawn in Init, FixItem runs one iteration of the  *)
(* loop against the store's answer to its PUT, FixReturn returns.          *)
(***************************************************************************)
MaxFixes == 3

FixRecords == {DiscrepantRecord, VpcRecord(NetA, << <<"owner", "alice">> >>)}

\* the discrepancies bucket for the records s: each is a network of the
\* store whose attributes differ from the mapped ones
FixEntries(s) ==
    [i \in DOMAIN s |->
        BucketEntry(i, s[i], MappedEAs("v2", s[i], 0), DiscrepantEAs, "")]

InitFix ==
    /\ pc = "fix"
    /\ variant = "v2"
    /\ dry_run \in BOOLEAN
    /\ vpc_df \in SeqsUpTo(FixRecords, MaxFixes)
    /\ discrepancies = FixEntries(vpc_df)
    /\ idx = 1
    /\ results = EmptyResults
    /\ error_msg = ""
    /\ ib_networks = (NetD :> DiscrepantEAs) @@ (NetA :> DiscrepantEAs)
    /\ ib_containers = <<>>
    /\ visited_containers = {}
    /\ operation_results = EmptyOperationResults
    /\ fix_results = EmptyFixResults
    /\ emitted = <<>>
    /\ requests = <<>>
    /\ run = 1
    /\ dry_emitted = <<>>
    /\ IdleOverlap /\ IdleMapper /\ IdleSort /\ IdleClock /\ IdleEAs

NextFix == FixItem \/ FixReturn

SpecFix == InitFix /\ [][NextFix]_vars

(***************************************************************************)
(* Specification of the client's attribute definitions (prop 772-825):     *)
(* get_extensible_attributes, create_extensible_attribute and              *)
(* ensure_required_eas_exist called in any order by one client, no other   *)
(* client writing to the store.                                            *)
(***************************************************************************)
MaxCalls == 3

\* required_eas of ensure_required_eas
CacheNames == {"site_id", "m_host", "source", "import_date"}

\* what the store answers to the POST of a definition when nobody else
\* writes: it creates a name it does not hold and refuses one it holds;
\* either request may fail
OwnAnswers(name, defs) ==
    IF name \in defs THEN {"exists", "500"} ELSE {"ok", "500"}

InitCache ==
    /\ pc = "client"
    /\ variant = "enh"
    /\ dry_run = FALSE
    /\ ea_defs \in SUBSET CacheNames
    /\ ea_cache = <<>>
    /\ ea_analysis = EmptyEAAnalysis
    /\ vpc_df = <<>>
    /\ discrepancies = <<>>
    /\ idx = 1
    /\ results = EmptyResults
    /\ error_msg = ""
    /\ ib_networks = <<>>
    /\ ib_containers = <<>>
    /\ visited_containers = {}
    /\ operation_results = EmptyOperationResults
    /\ fix_results = EmptyFixResults
    /\ emitted = <<>>
    /\ requests = <<>>
    /\ run = 1
    /\ dry_emitted = <<>>
    /\ IdleOverlap /\ IdleMapper /\ IdleSort /\ IdleClock

cacheFrame == <<ctlVars, overlapVars, mapperVars, sortVars, compareVars, storeVars, now,
                ea_analysis, discrepancies, visited_containers, operation_results,
                fix_results, emitted, run, dry_emitted>>

GetAttributes ==
    /\ pc = "client"
    /\ Len(requests) < MaxCalls
    /\ \E resp \in {"ok", "500"} :
          LET got == get_extensible_attributes(ea_cache, ea_defs, resp)
          IN  /\ ea_cache' = got.cache
              /\ requests' = requests \o got.log
    /\ UNCHANGED <<ea_defs, cacheFrame>>

CreateAttribute ==
    /\ pc = "client"
    /\ Len(requests) < MaxCalls
    /\ \E name \in CacheNames :
       \E resp \in OwnAnswers(name, ea_defs) :
          LET r == create_extensible_attribute(name, ea_defs, ea_cache, resp)
          IN  /\ ea_defs' = r.defs
              /\ ea_cache' = r.cache
              /\ requests' = requests \o r.log
    /\ UNCHANGED cacheFrame

\* ensure_required_eas_exist: the definitions are read (through the
\* cache) and each required name that is not among them is created; an
\* exception leaves the loop
EnsureExist ==
    /\ pc = "client"
    /\ Len(requests) < MaxCalls
    /\ \E required \in RequiredEAOrders("prop", <<>>), get_resp \in {"ok", "500"} :
       \E resps \in [1..Len(required) -> MutationResponses] :
          LET got == get_extensible_attributes(ea_cache, ea_defs, get_resp)
              r == IF got.raised
                   THEN [defs |-> ea_defs, cache |-> got.cache, log |-> got.log]
                   ELSE ensure_loop(FALSE, required, got.value,
                                    [defs |-> ea_defs, cache |-> got.cache,
                                     log |-> got.log, raised |-> FALSE,
                                     created |-> <<>>],
                                    resps)
          IN  /\ \A i \in DOMAIN required :
                    resps[i] \in OwnAnswers(required[i], ea_defs)
              /\ ea_defs' = r.defs
              /\ ea_cache' = r.cache
              /\ requests' = requests \o r.log
    /\ UNCHANGED cacheFrame

NextCache == GetAttributes \/ CreateAttribute \/ EnsureExist

SpecCache == InitCache /\ [][NextCache]_vars

(***************************************************************************)
(* Specification of update_network of the working script (233-247), a      *)
(* method of the client that the scripts never call: a caller updates      *)
(* networks of the store directly.                                         *)
(***************************************************************************)
InitUpdate ==
    /\ pc = "client"
    /\ variant = "working"
    /\ dry_run = FALSE
    /\ ib_networks \in {NetA :> eas : eas \in StoredEAs("working")}
    /\ ib_containers = <<>>
    /\ vpc_df = <<>>
    /\ discrepancies = <<>>
    /\ idx = 1
    /\ results = EmptyResults
    /\ error_msg = ""
    /\ visited_containers = {}
    /\ operation_results = EmptyOperationResults
    /\ fix_results = EmptyFixResults
    /\ emitted = <<>>
    /\ requests = <<>>
    /\ run = 1
    /\ dry_emitted = <<>>
    /\ IdleOverlap /\ IdleMapper /\ IdleSort /\ IdleClock /\ IdleEAs

UpdateNetwork ==
    /\ pc = "client"
    /\ Len(requests) < MaxCalls
    /\ \E cidr \in DOMAIN ib_networks, extattrs \in StoredEAs("working") \cup {<<>>},
          resp \in UpdateResponses :
          LET r == update_network(ib_networks, cidr, extattrs, resp)
          IN  /\ ib_networks' = r.table
              /\ requests' = requests \o r.log
    /\ UNCHANGED <<ctlVars, overlapVars, mapperVars, sortVars, compareVars, ib_containers,
                   now, eaVars, discrepancies, visited_containers, operation_results,
                   fix_results, emitted, run, dry_emitted>>

NextUpdate == UpdateNetwork

SpecUpdate == InitUpdate /\ [][NextUpdate]_vars

(***************************************************************************)
(* Properties of the overlap analysis.                                     *)
(***************************************************************************)
InputCidrs == {missing_networks[i].cidr : i \in DOMAIN missing_networks}

\* every address of b lies in a and b is a strictly smaller network
StrictlyContains(a, b) ==
    /\ network_address(a) <= network_address(b)
    /\ broadcast_address(b) <= broadcast_address(a)
    /\ HostSize(b) < HostSize(a)

\* C7: containment is strict: check_network_overlap never answers "contains"
\* for a CIDR and itself, the relationships list of a CIDR never holds a
\* record with that same CIDR, and every container strictly contains a
\* different, strictly smaller input network.
C7_ContainmentIsStrict ==
    pc = "analyzed" =>
        /\ \A c \in InputCidrs : check_network_overlap(c, c) # "contains"
        /\ \A c \in DOMAIN overlap_analysis.relationships :
              \A k \in DOMAIN overlap_analysis.relationships[c] :
                  overlap_analysis.relationships[c][k].cidr # c
        /\ \A c \in overlap_analysis.containers :
              \E d \in InputCidrs : d # c /\ StrictlyContains(c, d)

\* C8: the containers set is exactly the set of input CIDRs that strictly
\* contain another input CIDR; it is a subset of the input CIDRs, it has the
\* keys of the relationships map, and every relationships list is non-empty.
C8_ContainersExact ==
    pc = "analyzed" =>
        /\ overlap_analysis.containers =
              {c \in InputCidrs : \E d \in InputCidrs : StrictlyContains(c, d)}
        /\ overlap_analysis.containers \subseteq InputCidrs
        /\ DOMAIN overlap_analysis.relationships = overlap_analysis.containers
        /\ \A c \in DOMAIN overlap_analysis.relationships :
              overlap_analysis.relationships[c] # <<>>

(***************************************************************************)
(* Properties of the mapper.                                               *)
(***************************************************************************)

\* C9: the mapper is idempotent on its own output: mapping an already
\* mapped attribute dict yields the same dict (same keys, same values).
C9_MapperIdempotent ==
    pc = "remapped" => DictEq(remapped_eas, mapped_eas)

(***************************************************************************)
(* Properties of the priority sort.                                        *)
(***************************************************************************)
Environment(item) ==
    str_lower(DictGet(item.aws_tags, "environment",
                      DictGet(item.aws_tags, "Environment", "")))

Bonus(item) ==
    CASE Environment(item) \in {"prod", "production"} -> 5
      [] Environment(item) \in {"staging", "stage"}   -> 3
      [] Environment(item) \in {"test", "testing"}    -> 2
      [] Environment(item) \in {"dev", "development"} -> 1
      [] OTHER                                        -> 0

BonusPriority(item) == Max(1, item.cidr.prefix - Bonus(item))

IsPermutation(s, t) ==
    /\ Len(s) = Len(t)
    /\ \E f \in [DOMAIN s -> DOMAIN s] :
          /\ \A i, j \in DOMAIN s : f[i] = f[j] => i = j
          /\ \A i \in DOMAIN s : t[i] = s[f[i]]

\* every CIDR text of the missing list ends in "/p"
HasPrefixLengths ==
    \A i \in DOMAIN missing_networks : missing_networks[i].cidr.prefix # NoPrefixPart

\* C10: in every variant that sorts by it, the priority of a missing
\* record with a prefix length is max(1, prefix length - bonus), bonus
\* 5/3/2/1/0 for production/staging/test/dev/unknown, compared
\* case-insensitively, and records are created in ascending order of that
\* value (a /24 production record, 19, before a /24 dev record, 23).
C10_PriorityWithBonus ==
    (pc = "sorted" /\ HasPrefixLengths) =>
        /\ \A i \in DOMAIN sorted_missing :
              priorities[i] = BonusPriority(sorted_missing[i])
        /\ \A i, j \in DOMAIN sorted_missing :
              i < j => BonusPriority(sorted_missing[i]) <= BonusPriority(sorted_missing[j])

(***************************************************************************)
(* Properties of the comparison.                                           *)
(***************************************************************************)
Buckets == {"matches", "discrepancies", "missing", "containers", "errors"}

\* the places (bucket, position) where row i of the input appears
Places(i) ==
    {<<b, k>> \in Buckets \X (1..Len(vpc_df)) :
        k \in DOMAIN results[b] /\ results[b][k].row = i}

RECURSIVE SumLen(_)
SumLen(B) ==
    IF B = {} THEN 0
    ELSE LET b == CHOOSE x \in B : TRUE IN Len(results[b]) + SumLen(B \ {b})

\* C1: when the comparison returns, whatever the store answered (lookups
\* that raise included), every input record is in exactly one of the five
\* buckets, and the bucket sizes sum to the number of input records.
C1_ExactlyOneBucket ==
    pc = "compared" =>
        /\ \A i \in DOMAIN vpc_df :
              /\ Cardinality(Places(i)) = 1
              /\ \A pl \in Places(i) : results[pl[1]][pl[2]].vpc = vpc_df[i]
        /\ SumLen(Buckets) = Len(vpc_df)

\* two records compared by v2, a lookup of the first raised a server error
\* and a lookup of the second raised an error shaped like "not found"
C1_RaisedLookups ==
    /\ pc = "compared"
    /\ variant = "v2"
    /\ Len(vpc_df) = 2
    /\ Len(results.errors) = 1
    /\ results.errors[1].row = 1
    /\ results.errors[1].error = ErrorMessage("500")
    /\ Len(results.missing) = 1
    /\ results.missing[1].row = 2
    /\ vpc_df[2].cidr \in DOMAIN ib_networks

SameAttributes(mapped, ib_eas) ==
    /\ DictKeys(mapped) = DictKeys(ib_eas)
    /\ \A key \in DictKeys(mapped) : DictGet(mapped, key, "") = DictGet(ib_eas, key, "")

\* C2: in every variant, a record whose CIDR is a plain network of the
\* store is in matches only when its mapped attributes and the stored
\* attributes have the same key set and equal values, and is in
\* discrepancies when a key is on one side only or a value differs.
C2_MatchedOnlyWhenIdentical ==
    pc = "compared" =>
        /\ \A k \in DOMAIN results.matches :
              SameAttributes(results.matches[k].mapped_eas, results.matches[k].ib_eas)
        /\ \A k \in DOMAIN results.discrepancies :
              ~ SameAttributes(results.discrepancies[k].mapped_eas,
                               results.discrepancies[k].ib_eas)

(***************************************************************************)
(* Properties of the creation run.                                         *)
(***************************************************************************)

\* C3: in the overlap-aware creation, for every container C of the analysis
\* and every record D of relationships[C], the attempt for C comes strictly
\* before the attempt for D, also when D is itself a container.
C3_ContainerBeforeChildren ==
    variant = "enh" =>
        \A c \in DOMAIN overlap_analysis.relationships :
            \A d \in DOMAIN overlap_analysis.relationships[c] :
                \A k \in DOMAIN emitted :
                    emitted[k].row = overlap_analysis.relationships[c][d].row =>
                        \E j \in 1..(k - 1) : emitted[j].cidr = c

ResultLists ==
    {"results", "created_networks", "created_containers", "failed", "skipped_due_to_overlap"}

RECURSIVE TotalOutcomes(_)
TotalOutcomes(L) ==
    IF L = {} THEN 0
    ELSE LET l == CHOOSE x \in L : TRUE
         IN  Len(operation_results[l]) + TotalOutcomes(L \ {l})

OutcomesOf(i) ==
    {<<l, k>> \in ResultLists \X (1..Len(missing_networks)) :
        k \in DOMAIN operation_results[l] /\ operation_results[l][k].row = i}

\* C4: when the creation step has returned, every record of the missing
\* list has exactly one outcome, lists with two records of the same CIDR
\* included, and the result lists hold as many outcomes as there are records.
C4_OneOutcomePerRecord ==
    (pc = "done" /\ variant \in {"enh", "v2"}) =>
        /\ TotalOutcomes(ResultLists) = Len(missing_networks)
        /\ \A i \in DOMAIN missing_networks : Cardinality(OutcomesOf(i)) = 1

\* the kind of an action, the would_ prefix and the tense set aside
Kind(action) ==
    CASE action \in {"would_create", "created"} -> "create"
      [] action \in {"would_create_container", "created_container"} -> "create_container"
      [] action = "would_reject" -> "reject"
      [] OTHER -> action

Kinds(outcomes) == [k \in DOMAIN outcomes |-> Kind(outcomes[k].action)]

\* C5: the sequence of action kinds of the creation step in a dry run is
\* the sequence of a live run on the same input in which every external
\* call succeeds.
C5_DryRunParity ==
    (pc = "done" /\ run = 2 /\ AllOk) => Kinds(dry_emitted) = Kinds(emitted)

\* C6: in a dry run no create or update request reaches the store, in the
\* provisioning of attributes, the creation of networks and containers and
\* the repair of discrepancies; the store's networks, containers, attribute
\* values and attribute definitions stay as they were.
C6_DryRunReadsOnly ==
    [][dry_run =>
          /\ \A k \in DOMAIN requests' : requests'[k].method = "GET"
          /\ ib_networks' = ib_networks
          /\ ib_containers' = ib_containers
          /\ ea_defs' = ea_defs]_vars

\* a dry run of v2 over missing networks and a discrepancy, with an
\* attribute definition missing, has come to its end
C6_DryRunDone ==
    /\ dry_run
    /\ pc = "done"
    /\ variant = "v2"
    /\ Len(emitted) = 2
    /\ \A k \in DOMAIN emitted : emitted[k].action = "would_create"
    /\ fix_results.would_update_count = 1
    /\ ea_analysis.missing_eas = <<"aws_name">>
    /\ requests # <<>>
    /\ "aws_name" \notin ea_defs
    /\ ib_networks[NetD] = DiscrepantEAs

(***************************************************************************)
(* Properties of the handling of failed calls.                             *)
(***************************************************************************)
\* the requests a step has sent
NewRequests == {k \in DOMAIN requests' : k > Len(requests)}

IsCreate(req) == req.method = "POST" /\ req.object \in {"network", "networkcontainer"}

AlreadyExistedActions ==
    {"already_existed", "already_existed_updated_eas", "already_existed_ea_update_failed"}

\* C11: a create call answered "already exists" is followed by a lookup of
\* the object and the record's outcome is an already-existed outcome, never
\* error or failed, in every variant and for networks and containers alike.
C11_AlreadyExistsIsNoFailure ==
    [][\A k \in NewRequests :
          (IsCreate(requests'[k]) /\ requests'[k].resp = "exists")
          => /\ Len(emitted') = Len(emitted) + 1
             /\ emitted'[Len(emitted')].action \in AlreadyExistedActions
             /\ k < Len(requests')
             /\ requests'[k + 1].method = "GET"]_vars

\* an error that looks like "not found": an HTTP 404 or a message that says
\* "not found"
NotFoundShaped(e) ==
    str_contains(e, "404 Client Error") \/ str_contains(str_lower(e), "not found")

\* the bucket entry of a record found absent at time t
AbsentEntry(row, t) == BucketEntry(row, vpc_df[row], MappedEAs(variant, vpc_df[row], t), <<>>, "")

\* C12: in the comparison, a lookup that raises a not-found-shaped error
\* files the record under missing with the entry a clean absent answer
\* gives, any other raised error files it under errors, and the rows after
\* it are classified as well.
C12_LookupErrorsAreFiled ==
    /\ [][(pc = "compare" /\ idx' = idx + 1 /\ error_msg' # "")
           => IF NotFoundShaped(error_msg')
              THEN results' = [results EXCEPT !.missing = Append(@, AbsentEntry(idx, now'))]
              ELSE results' = [results EXCEPT !.errors =
                                  Append(@, BucketEntry(idx, vpc_df[idx], <<>>, <<>>, error_msg'))]]_vars
    /\ [](pc = "compared" => \A i \in DOMAIN vpc_df : Places(i) # {})


\* a call the orchestrator takes for a failure: not an answer that the
\* object exists already, not a lookup answered "no such object"
FailedCall(req) ==
    /\ req.object \in {"network", "networkcontainer"}
    /\ req.resp \notin {"ok", "exists"}
    /\ ~ (req.method = "GET" /\ req.resp \in NotFoundStatuses(variant))

\* enhanced: the record the container loop handles for its CIDR
HandledAsContainer(i) ==
    /\ missing_networks[i].cidr \in overlap_analysis.containers
    /\ \A j \in 1..(i - 1) : missing_networks[j].cidr # missing_networks[i].cidr

\* the position of row i in the sorted list of v1 and v2
SortedPosition(i) == CHOOSE p \in DOMAIN sorted_missing : sorted_missing[p].row = i

\* record i comes after the record of outcome k in the creation order
AfterOutcome(i, k) ==
    IF variant = "enh"
    THEN IF HandledAsContainer(i)
         THEN /\ emitted[k].detail = "container"
              /\ \A j \in 1..k : emitted[j].row # i
         ELSE emitted[k].detail = "container" \/ i > emitted[k].row
    ELSE SortedPosition(i) > SortedPosition(emitted[k].row)

\* C13: when the creation step (and the repair of discrepancies) has
\* returned, every failed create, re-fetch or update call is recorded as an
\* outcome with its error, and every record that comes after a failed one
\* in the creation order has an outcome of its own after it.
C13_FailureDoesNotAbort ==
    pc = "done" =>
        /\ \A q \in DOMAIN requests :
              FailedCall(requests[q]) =>
                 \/ \E k \in DOMAIN emitted :
                       emitted[k].cidr = requests[q].key /\ emitted[k].error # ""
                 \/ \E k \in DOMAIN fix_results.details :
                       /\ fix_results.details[k].cidr = requests[q].key
                       /\ fix_results.details[k].error # ""
        /\ \A k \in DOMAIN emitted :
              emitted[k].error # "" =>
                 \A i \in DOMAIN missing_networks :
                    AfterOutcome(i, k) => \E j \in (k + 1)..Len(emitted) : emitted[j].row = i
        /\ Len(fix_results.details) = Len(discrepancies)


(***************************************************************************)
(* Properties of the provisioning of attribute definitions.                *)
(***************************************************************************)
\* the attribute names the records to create refer to
ReferencedNames ==
    UNION {DictKeys(missing_networks[i].mapped_eas) : i \in DOMAIN missing_networks}

\* C14: in a live run of main (run = 1: main has ensured the definitions
\* before its creation step; a second call of the creation step alone is no
\* run of main), once a network or container creation call has been issued,
\* every attribute name the records refer to is a definition of the store:
\* creation does not start while a definition is absent.
C14_DefinitionsBeforeCreation ==
    (run = 1 /\ ~ dry_run /\ \E k \in DOMAIN requests : IsCreate(requests[k]))
        => ReferencedNames \subseteq ea_defs


(***************************************************************************)
(* Properties of the analysis of malformed input.                          *)
(***************************************************************************)
Malformed(cidr) == cidr.prefix = NoPrefixPart \/ ip_network_raises(cidr)

\* C15: a record with a malformed CIDR string does not make the overlap
\* analysis fail: the analysis returns, and the malformed record is no
\* container and takes part in no containment and no overlap.
C15_MalformedCidrIsSetAside ==
    (variant = "enh" /\ \E i \in DOMAIN missing_networks : Malformed(missing_networks[i].cidr))
        => /\ pc # "aborted"
           /\ \A i \in DOMAIN missing_networks :
                 Malformed(missing_networks[i].cidr) =>
                    /\ missing_networks[i].cidr \notin overlap_analysis.containers
                    /\ \A c \in DOMAIN overlap_analysis.relationships :
                          \A d \in DOMAIN overlap_analysis.relationships[c] :
                             overlap_analysis.relationships[c][d] # missing_networks[i]
                    /\ \A k \in DOMAIN overlap_analysis.overlaps :
                          /\ overlap_analysis.overlaps[k].network1 # missing_networks[i]
                          /\ overlap_analysis.overlaps[k].network2 # missing_networks[i]


(***************************************************************************)
(* Irreconcilable overlaps.                                                *)
(***************************************************************************)
\* C16 speaks of the records of overlap_analysis['overlaps'].  Two networks
\* read by ipaddress.ip_network are nested or disjoint, so
\* check_network_overlap never answers "overlap" and the list stays empty:
\* no run has a record the claim is about.
NoIrreconcilableOverlap == overlap_analysis.overlaps = <<>>


(***************************************************************************)
(* Properties of the categorisation of failures.                           *)
(***************************************************************************)
\* the rules in their order: the words looked for and the category given
CategoryRules ==
    << <<{"overlap", "parent"}, "overlap">>,
       <<{"permission", "auth"}, "permission">>,
       <<{"invalid"}, "invalid">>,
       <<{"network view"}, "network_view_error">>,
       <<{"not found"}, "not_found">>,
       <<{"extensible", "attribute"}, "ea_error">> >>

RuleMatches(r, text) == \E w \in CategoryRules[r][1] : str_contains(text, w)

MatchingRules(text) == {r \in DOMAIN CategoryRules : RuleMatches(r, text)}

\* the category of the earliest rule that matches, "unknown" when none does
FirstMatch(text) ==
    IF MatchingRules(text) = {} THEN "unknown"
    ELSE CategoryRules[CHOOSE r \in MatchingRules(text) :
                          \A q \in MatchingRules(text) : r <= q][2]

\* C17: a failed creation carries one category, the one of the first rule
\* in the fixed order that matches the lower-cased error message, also
\* when several rules match; with no match it is unknown.
C17_FirstMatchingRule ==
    \A k \in DOMAIN emitted :
        emitted[k].action = "error" =>
            /\ Len(emitted) = 1
            /\ emitted[k].error = error_msg
            /\ emitted[k].detail = FirstMatch(str_lower(error_msg))

\* a message that matches the rules of invalid and of not_found has been
\* categorised as invalid
C17_SeveralRulesMatch ==
    /\ pc = "handled"
    /\ error_msg = "Invalid: not found"
    /\ Cardinality(MatchingRules(str_lower(error_msg))) = 2
    /\ Len(emitted) = 1
    /\ emitted[1].action = "error"
    /\ emitted[1].detail = "invalid"


(***************************************************************************)
(* Properties of a run against a store that does not answer.               *)
(***************************************************************************)
\* the texts of the failures in which no answer of the store arrived
TransportErrors == {ErrorMessage("proxy"), ErrorMessage("timeout")}

\* main, v1 lines 156-158: the condition of the warning about connectivity
all_records_are_errors(res, df) ==
    /\ Len(res.errors) = Len(df)
    /\ Len(res.errors) > 0

\* main: 1 from the except branch (236-239), 0 at the end of the try block
\* (231), which the warning of lines 158-165 does not leave
main_result(raised) == IF raised THEN 1 ELSE 0

StoreUnreachable ==
    /\ all_records_are_errors(results, vpc_df)
    /\ \A k \in DOMAIN results.errors : results.errors[k].error \in TransportErrors

\* C18: when the store cannot be reached at all the run ends with a
\* non-zero result; it does not complete normally with every record in
\* the Error bucket.
C18_UnreachableStoreAborts ==
    (pc = "compared" /\ StoreUnreachable) => main_result(FALSE) # 0


\* the characters a normalized key may hold
Digits == "0123456789"

KeyAlphabet ==
    {SubSeq(LowerCase, i, i) : i \in 1..Len(LowerCase)}
        \cup {SubSeq(Digits, i, i) : i \in 1..Len(Digits)} \cup {"_"}

IsNormalizedKey(key) == \A i \in 1..Len(key) : SubSeq(key, i, i) \in KeyAlphabet

\* C19: every key of the map the mapper returns consists of lower-case
\* letters, digits and underscores only.
C19_KeysAreNormalized ==
    pc = "mapped" => \A k \in DOMAIN mapped_eas : IsNormalizedKey(mapped_eas[k][1])


(***************************************************************************)
(* Properties of the mapping over time.                                    *)
(***************************************************************************)
\* the entries of the comparison that carry the mapped attributes
MappedEntries ==
    results.matches \o results.missing \o results.discrepancies \o results.containers

\* what the mapper is called with: site_id and m_host, or the tags
RawAttributes(v, rec) == IF v = "enh" THEN <<rec.site_id, rec.m_host>> ELSE rec.aws_tags

\* C20: the normalized attributes are a function of the raw attributes
\* alone: records with the same raw attributes, mapped at any times, get
\* the same normalized map.
C20_MappingIsDeterministic ==
    \A i, j \in DOMAIN MappedEntries :
        RawAttributes(variant, MappedEntries[i].vpc) = RawAttributes(variant, MappedEntries[j].vpc)
            => DictEq(MappedEntries[i].mapped_eas, MappedEntries[j].mapped_eas)

(***************************************************************************)
(* Properties of the analysis under reordering of its input.               *)
(***************************************************************************)
\* the lists with the records of s in another order
PermutationsOf(s) == {t \in [DOMAIN s -> Range(s)] : IsPermutation(s, t)}

\* the (container, child CIDR) pairs of a relationships map
RelationshipPairs(rel) ==
    UNION {{<<c, rel[c][k].cidr>> : k \in DOMAIN rel[c]} : c \in DOMAIN rel}

\* the overlapping pairs, without their order
OverlapPairs(ovl) == {{ovl[k].network1.cidr, ovl[k].network2.cidr} : k \in DOMAIN ovl}

SameAnalysis(a, b) ==
    /\ a.containers = b.containers
    /\ RelationshipPairs(a.relationships) = RelationshipPairs(b.relationships)
    /\ OverlapPairs(a.overlaps) = OverlapPairs(b.overlaps)

\* C21: the analysis does not depend on the order of its input: every
\* permutation of the records gives the same containers, the same
\* (container, child) pairs and the same unordered overlapping pairs.
C21_OrderIndependent ==
    pc = "analyzed" =>
        \A t \in PermutationsOf(missing_networks) :
            SameAnalysis(analyze_network_overlaps(t), overlap_analysis)

\* C22: the creation attempts of one batch come larger networks first:
\* along the outcomes, in the order they were appended, the prefix length
\* never decreases.
C22_LargerNetworksFirst ==
    \A i, j \in DOMAIN emitted :
        i < j => emitted[i].cidr.prefix <= emitted[j].cidr.prefix

(***************************************************************************)
(* Properties of the comparison's requests.                                *)
(***************************************************************************)
LookupObjects == {"network", "networkcontainer"}

\* C23: the comparison only reads: every request it sends is a lookup of
\* a network or of a container, and the store's networks, containers and
\* attribute definitions stay as they were, whatever the lookups answer.
C23_ReconcileOnlyReads ==
    [][/\ \A k \in DOMAIN requests' :
             requests'[k].method = "GET" /\ requests'[k].object \in LookupObjects
       /\ ib_networks' = ib_networks
       /\ ib_containers' = ib_containers
       /\ ea_defs' = ea_defs]_vars

\* a record whose network lookup found nothing and whose container lookup
\* failed has been filed, after two requests
C23_LookupsMade ==
    /\ pc = "compared"
    /\ Len(vpc_df) = 1
    /\ Len(requests) = 2
    /\ requests[1].resp \in {"ok", "400"}
    /\ requests[2].resp = "500"
    /\ Len(results.errors) = 1

(***************************************************************************)
(* Properties of partial overlaps.                                         *)
(***************************************************************************)
\* valid IPv4 CIDR strings: nested, disjoint, equal, adjacent, with host
\* bits set; those of every batch are among them
Net17Low == Cidr(10, 0, 0, 0, 17)
Net17High == Cidr(10, 0, 128, 0, 17)
Net8 == Cidr(10, 200, 3, 4, 8)

ValidCidrs ==
    OverlapCidrs \cup {Net22, Net24, Net4, Net17Low, Net17High, Net32, Net8}

NestedOrDisjoint(a, b) ==
    check_network_overlap(a, b) \in {"contains", "contained", "none"}

ValidPairsNestedOrDisjoint == \A a, b \in ValidCidrs : NestedOrDisjoint(a, b)

\* C24: for valid IPv4 CIDRs check_network_overlap answers contains,
\* contained or none and never overlap; so the overlaps list of the
\* analysis is empty and the creation step skips no record for an overlap.
C24_NeverPartialOverlap ==
    /\ ValidPairsNestedOrDisjoint
    /\ NoIrreconcilableOverlap
    /\ operation_results.skipped_due_to_overlap = <<>>
    /\ \A k \in DOMAIN emitted : emitted[k].list # "skipped_due_to_overlap"

\* the enhanced importer has analysed a batch with nested networks and gone
\* through its network loop
C24_NestedBatchCreated ==
    /\ variant = "enh"
    /\ pc = "done"
    /\ ~ dry_run
    /\ overlap_analysis.containers # {}
    /\ operation_results.created_networks # <<>>

(***************************************************************************)
(* Properties of the relationships map.                                    *)
(***************************************************************************)
\* the records of the batch strictly inside the network c
Descendants(c) ==
    {missing_networks[i] : i \in {k \in DOMAIN missing_networks :
        /\ ~ ip_network_raises(missing_networks[k].cidr)
        /\ StrictlyContains(c, missing_networks[k].cidr)}}

\* c has a record of the CIDR d in its list
Related(c, d) ==
    /\ c \in DOMAIN overlap_analysis.relationships
    /\ \E k \in DOMAIN overlap_analysis.relationships[c] :
          overlap_analysis.relationships[c][k].cidr = d

\* no two records of the batch name the same network
DistinctNetworks ==
    \A i, j \in DOMAIN missing_networks :
        (/\ i # j
         /\ ~ ip_network_raises(missing_networks[i].cidr)
         /\ ~ ip_network_raises(missing_networks[j].cidr))
            => \/ prefixlen(missing_networks[i].cidr) # prefixlen(missing_networks[j].cidr)
               \/ network_address(missing_networks[i].cidr)
                      # network_address(missing_networks[j].cidr)

\* C25: for a batch of distinct networks the relationships map is
\* transitively closed and lists all descendants: every record of the
\* batch strictly inside a container is in the container's list, so of
\* three nested CIDRs A, B, C the list of A holds B and C, the list of B
\* holds C, and A and B are containers; every list is ordered by
\* non-decreasing prefix length.
C25_AllDescendantsListed ==
    (pc = "analyzed" /\ DistinctNetworks) =>
        /\ \A c, d, e \in InputCidrs :
              (Related(c, d) /\ Related(d, e)) => Related(c, e)
        /\ \A i \in DOMAIN missing_networks :
              LET c == missing_networks[i].cidr IN
              (~ ip_network_raises(c) /\ Descendants(c) # {}) =>
                  /\ c \in overlap_analysis.containers
                  /\ c \in DOMAIN overlap_analysis.relationships
                  /\ Descendants(c) \subseteq Range(overlap_analysis.relationships[c])
        /\ \A c \in DOMAIN overlap_analysis.relationships :
              \A j, k \in DOMAIN overlap_analysis.relationships[c] :
                  j < k => prefixlen(overlap_analysis.relationships[c][j].cidr)
                              <= prefixlen(overlap_analysis.relationships[c][k].cidr)

\* three nested CIDRs have been analysed: the list of the /16 holds the /20
\* and the /24, the list of the /20 holds the /24
C25_ThreeNested ==
    /\ pc = "analyzed"
    /\ Len(missing_networks) = 3
    /\ overlap_analysis.containers = {NetA, NetB}
    /\ Len(overlap_analysis.relationships[NetA]) = 2
    /\ overlap_analysis.relationships[NetA][1].cidr = NetB
    /\ overlap_analysis.relationships[NetA][2].cidr = NetC
    /\ Len(overlap_analysis.relationships[NetB]) = 1
    /\ overlap_analysis.relationships[NetB][1].cidr = NetC

(***************************************************************************)
(* Properties of the objects the overlap-aware creation posts.             *)
(***************************************************************************)
\* the positions of the create calls among the requests
CreateCalls ==
    {k \in DOMAIN requests :
        /\ requests[k].method = "POST"
        /\ requests[k].object \in {"network", "networkcontainer"}}

\* C26: in a run of the overlap-aware creation a CIDR of the containers
\* set is only created as a container, any other CIDR only as a network,
\* so no CIDR gets both calls, and a container CIDR is created at most once
\* even when several records carry it.
C26_ContainerOrNetwork ==
    variant = "enh" =>
        /\ \A k \in CreateCalls :
              requests[k].object = "networkcontainer"
                  <=> requests[k].key \in overlap_analysis.containers
        /\ \A j, k \in CreateCalls :
              requests[j].key = requests[k].key =>
                  /\ requests[j].object = requests[k].object
                  /\ requests[j].object = "networkcontainer" => j = k

\* two records carry the container 10.0.0.0/16 and a third is inside it:
\* the live run has posted the container once and the network
C26_SharedContainerCreated ==
    /\ variant = "enh"
    /\ pc = "done"
    /\ Len(missing_networks) = 3
    /\ missing_networks[1].cidr = NetA
    /\ missing_networks[2].cidr = NetA
    /\ \E j, k \in CreateCalls :
          /\ requests[j].object = "networkcontainer" /\ requests[j].key = NetA
          /\ requests[k].object = "network"

(***************************************************************************)
(* Properties of a comparison-only run.                                    *)
(***************************************************************************)
\* C27: a run with neither --create-missing nor --dry-run sends no
\* mutating call: every request is a GET, and no network, container or
\* attribute definition of the store changes.
C27_CompareOnlyReads ==
    [][/\ \A k \in DOMAIN requests' : requests'[k].method = "GET"
       /\ ib_networks' = ib_networks
       /\ ib_containers' = ib_containers
       /\ ea_defs' = ea_defs]_vars

(***************************************************************************)
(* Properties of a second run.                                             *)
(***************************************************************************)
\* the rows the creation step of the first run reported as created networks
CreatedRows ==
    {dry_emitted[k].row : k \in {j \in DOMAIN dry_emitted : dry_emitted[j].action = "created"}}

MatchedRows == {results.matches[k].row : k \in DOMAIN results.matches}

\* C28: when every call succeeded and the store kept what it was sent, the
\* comparison of the next run files every record whose network the live
\* run created as a match, records with empty attribute values and
\* property records included.
C28_SecondRunMatches ==
    (pc = "compared" /\ run = 3 /\ AllOk) => CreatedRows \subseteq MatchedRows

(***************************************************************************)
(* Properties of the repair of discrepancies.                              *)
(***************************************************************************)
\* the PUTs sent so far
Updates == SelectSeq(requests, LAMBDA r : r.method = "PUT")

\* C29: when fix_ea_discrepancies has returned, the three counts sum to
\* the number of discrepancies and to the length of details; a dry run
\* only counts would-be updates, a live run counts none; every
\* discrepancy has its entry, in order, also after a failed update.
C29_EveryDiscrepancyCounted ==
    pc = "done" =>
        /\ fix_results.updated_count + fix_results.would_update_count
              + fix_results.failed_count = Len(discrepancies)
        /\ Len(fix_results.details) = Len(discrepancies)
        /\ dry_run => fix_results.updated_count = 0 /\ fix_results.failed_count = 0
        /\ ~ dry_run => /\ fix_results.would_update_count = 0
                        /\ Len(Updates) = Len(discrepancies)
        /\ \A k \in DOMAIN discrepancies :
              /\ fix_results.details[k].row = discrepancies[k].row
              /\ ~ dry_run => (fix_results.details[k].action = "error"
                                  <=> Updates[k].resp # "ok")
              /\ ~ dry_run => (fix_results.details[k].action = "updated"
                                  <=> Updates[k].resp = "ok")

\* a live repair of three discrepancies whose first update failed and
\* whose later updates succeeded
C29_FailureThenUpdates ==
    /\ pc = "done"
    /\ ~ dry_run
    /\ Len(discrepancies) = 3
    /\ fix_results.failed_count = 1
    /\ fix_results.updated_count = 2
    /\ fix_results.details[1].action = "error"
    /\ fix_results.details[3].action = "updated"

(***************************************************************************)
(* Properties of the cache of attribute definitions.                       *)
(***************************************************************************)
\* C30: with this client the only writer, whenever _ea_cache holds
\* 'definitions' they are the store's current definitions.
C30_CacheCoherent == ea_cache # <<>> => ea_cache[1] = ea_defs

\* the definitions were read, a definition was created, and the
\* definitions read again are in the cache
C30_ReadAfterCreate ==
    /\ pc = "client"
    /\ ea_cache # <<>>
    /\ \E i, j, k \in DOMAIN requests :
          /\ i < j /\ j < k
          /\ requests[i].method = "GET" /\ requests[i].resp = "ok"
          /\ requests[j].method = "POST" /\ requests[j].resp = "ok"
          /\ requests[k].method = "GET" /\ requests[k].resp = "ok"
          /\ requests[j].key \in ea_cache[1]

====
